---------------------------- MODULE Spec2Model ----------------------------
(***************************************************************************)
(* A model of the CPC -> TSS converter's core pipeline                     *)
(* (src/modules/core_pipeline.py).                                         *)
(*                                                                         *)
(* Six specifications share this module:                                   *)
(*   Spec        the orchestrator: a constructed CorePipeline and          *)
(*               process_complete_pipeline taking each sheet through the   *)
(*               four stages;                                              *)
(*   SpecConfig  the same with ConfigManager's class-level cache, the      *)
(*               construction and the reload of a CorePipeline;            *)
(*   SpecStage4  CoreStep4DuplicateRemover.remove_duplicates on a Step-3   *)
(*               worksheet: transform, dedupe, materialize (header block,  *)
(*               merged ranges, column widths and data rows);              *)
(*   SpecStage3  CoreStep3DataTransfer.transfer_data on a source sheet:    *)
(*               header search, extraction, mapping, combinations, X       *)
(*               marks and save, followed by remove_duplicates on the      *)
(*               saved document;                                           *)
(*   SpecStage2  CoreArticleExtractor._search_article_info_in_dataframe    *)
(*               on a source sheet, and populate_template_with_article_info *)
(*               on the template of Stage 1;                               *)
(*   SpecLegacy  Step3DataTransfer.process_sheet_to_step3, the Stage 3 of  *)
(*               the web application (src/modules/step3_data_transfer.py). *)
(*                                                                         *)
(* Text is a sequence of one-character strings, so that str.strip(),       *)
(* str.lower() and str.join() are computed and not assumed.  File names    *)
(* are sequences of name tokens, where the token SEP stands for the        *)
(* three characters " - " that the naming convention and the file-name     *)
(* parsers split on.                                                       *)
(***************************************************************************)
EXTENDS Integers, Sequences, FiniteSets, TLC

VARIABLES
    \* ---- orchestrator (Spec) ----
    _template_config,    \* ConfigManager._template_config (class attribute)
    _processing_config,  \* ConfigManager._processing_config (class attribute)
    pipeline,            \* the CorePipeline object (NoPipeline before construction)
    pc,                  \* position in process_complete_pipeline
    sheet_names,         \* the sheet_names argument of the run in flight
    k,                   \* index of the sheet the for loop is at
    local,               \* template_path, step2_path, step3_path of sheet k
    results,             \* the results dictionary of the run
    fs,                  \* output directory: files the run has written, by path
    log,                 \* one entry per stage call of the run, in call order
    \* ---- Stage 4 (SpecStage4) ----
    pc4,                 \* position in remove_duplicates
    worksheet,           \* data rows of the loaded Step-3 worksheet (in memory)
    unique_rows,         \* result of _extract_unique_rows
    new_ws,              \* data rows of the Step-4 worksheet that was written
    ws_head,             \* header block of the loaded Step-3 worksheet
    new_head,            \* header block of the Step-4 worksheet
    unique_again,        \* _extract_unique_rows applied to the rows of unique_rows
    step3_file,          \* data rows of the Step-3 file as saved by Stage 3
    \* ---- Stage 3 (SpecStage3) ----
    pc3,                 \* position in transfer_data
    df3,                 \* the source sheet as pandas reads it
    header_row,          \* index of the header row found, or NoHeader
    data_rows,           \* rows extracted from the source sheet
    ws3_info,            \* article names and numbers of the Step-2 document
    ws3,                 \* rows of the document from data_start_row on
    \* ---- Stage 2 (SpecStage2) ----
    pc2,                 \* position in _search_article_info_in_dataframe
    df2,                 \* the source sheet as pandas read it
    article_name,        \* the name string found (NoText: None)
    article_number,      \* the number string found (NoText: None)
    article_names,       \* the list of names returned
    article_numbers,     \* the list of numbers returned
    ws2,                 \* header block of the Step-2 worksheet
    layout_config,       \* layout["article_info_rows"] of the template config
    \* ---- Stage 3 of the web application (SpecLegacy) ----
    pc_legacy,           \* position in process_sheet_to_step3
    ws_original,         \* the source sheet as openpyxl loads it
    legacy_data_rows,    \* data_rows of extract_data_from_original_sheet
    step3_doc            \* rows of the Step-3 document from start_row on

orchVars == <<_template_config, _processing_config, pipeline, pc, sheet_names,
              k, local, results, fs, log>>
stage4Vars == <<pc4, worksheet, unique_rows, new_ws, unique_again, step3_file,
                ws_head, new_head>>
legacyVars == <<pc_legacy, ws_original, legacy_data_rows, step3_doc>>
stage3Vars == <<pc3, df3, header_row, data_rows, ws3_info, ws3, legacyVars>>
stage2Vars == <<pc2, df2, article_name, article_number, article_names,
                article_numbers, ws2, layout_config>>
vars == <<orchVars, stage4Vars, stage3Vars, stage2Vars>>

None == "None"

-----------------------------------------------------------------------------
(* Bounds of the model.                                                    *)

\* longest sheet_names list of a run
MaxSheets == 3

\* longest sheet_names list of a run under SpecConfig
MaxConfigSheets == 1

\* most data rows of a Step-3 worksheet under SpecStage4
MaxRows == 3

\* columns of a worksheet (A..U: the data columns, and four article columns
\* from R on)
NCols == 21

\* most data rows that Stage 3 extracts from a source sheet under SpecStage3
MaxDataRows == 2

\* columns of the source sheet under SpecStage2
MaxDfCols == 2

-----------------------------------------------------------------------------
(* Sequence helpers.                                                       *)

Range(s) == {s[i] : i \in 1..Len(s)}

IsPrefixAt(pat, s, i) ==
    /\ i + Len(pat) - 1 <= Len(s)
    /\ \A j \in 1..Len(pat) : s[i + j - 1] = pat[j]

\* all duplicate-free sequences over S of length at most n
DistinctSeqs(S, n) ==
    {s \in UNION {[1..m -> S] : m \in 0..n} :
        \A i, j \in 1..Len(s) : i # j => s[i] # s[j]}

-----------------------------------------------------------------------------
(* File names.  A name is a sequence of tokens; SEP is " - ".  The stem    *)
(* (Path.stem) drops ".xlsx", which the naming templates append again, so  *)
(* the model keeps stems only; output_dir is the same for all stages.      *)

SEP == "-"

StepTok(n) == <<"Step1", "Step2", "Step3", "Step4">>[n]

\* processing_config["general"]["file_naming"]["step<n>"].format(...)
file_naming(n, base_name, sheet_name) ==
    base_name \o <<SEP>> \o sheet_name \o <<SEP, StepTok(n)>>

\* str.replace(old, ""): every non-overlapping occurrence, left to right
RECURSIVE replace(_, _)
replace(s, old) ==
    IF s = <<>> THEN <<>>
    ELSE IF IsPrefixAt(old, s, 1)
         THEN replace(SubSeq(s, Len(old) + 1, Len(s)), old)
         ELSE <<Head(s)>> \o replace(Tail(s), old)

\* str.split(" - "): the parts between the separators
RECURSIVE split(_)
split(s) ==
    IF \A i \in 1..Len(s) : s[i] # SEP THEN <<s>>
    ELSE LET i == CHOOSE i \in 1..Len(s) :
                     s[i] = SEP /\ \A j \in 1..(i - 1) : s[j] # SEP
         IN  <<SubSeq(s, 1, i - 1)>> \o split(SubSeq(s, i + 1, Len(s)))

\* " - ".join(parts)
RECURSIVE join(_)
join(parts) ==
    IF parts = <<>> THEN <<>>
    ELSE IF Len(parts) = 1 THEN parts[1]
         ELSE parts[1] \o <<SEP>> \o join(Tail(parts))

\* the body shared by _get_step2_filename, _get_step3_filename and
\* _get_step4_filename: the name of step n from the path of step n - 1
StepFilenameFrom(prev_path, n) ==
    LET base_name == replace(prev_path, <<SEP, StepTok(n - 1)>>)
        parts == split(base_name)
        original_base == IF Len(parts) >= 2
                         THEN join(SubSeq(parts, 1, Len(parts) - 1))
                         ELSE base_name
        sheet_name == IF Len(parts) >= 2 THEN parts[Len(parts)]
                      ELSE <<"Unknown">>
    IN  file_naming(n, original_base, sheet_name)

_get_step2_filename(step1_path) == StepFilenameFrom(step1_path, 2)

_get_step3_filename(step2_path) == StepFilenameFrom(step2_path, 3)

_get_step4_filename(step3_path) == StepFilenameFrom(step3_path, 4)

-----------------------------------------------------------------------------
(* ConfigManager: the class-level cache.  A configuration is identified by *)
(* the directory it was read from; `loads` says whether open() and         *)
(* json.load() of the file succeed at the time of the call.                *)

\* config_path of get_template_config / get_processing_config
config_path(config_dir) == IF config_dir # None THEN config_dir ELSE "default"

\* ConfigManager.get_template_config(config_dir): the cache after the call,
\* which is also the value returned unless the call raised
get_template_config(cache, config_dir, loads) ==
    IF cache = None
    THEN IF loads THEN [raised |-> FALSE, cache |-> config_path(config_dir)]
         ELSE [raised |-> TRUE, cache |-> None]
    ELSE [raised |-> FALSE, cache |-> cache]

\* ConfigManager.get_processing_config(config_dir)
get_processing_config(cache, config_dir, loads) ==
    IF cache = None
    THEN IF loads THEN [raised |-> FALSE, cache |-> config_path(config_dir)]
         ELSE [raised |-> TRUE, cache |-> None]
    ELSE [raised |-> FALSE, cache |-> cache]

\* the four processor constructors that CorePipeline.__init__ and
\* reload_configuration run in a row: CoreTemplateCreator loads both
\* configurations, the others read them again through the cache.  The first
\* load that fails raises out of the constructor chain.
NewProcessors(tcache, pcache, config_dir, loadsT, loadsP) ==
    LET t1 == get_template_config(tcache, config_dir, loadsT)
        p1 == IF t1.raised THEN [raised |-> TRUE, cache |-> pcache]
              ELSE get_processing_config(pcache, config_dir, loadsP)
        p2 == get_processing_config(p1.cache, config_dir, loadsP)
        p3 == get_processing_config(p2.cache, config_dir, loadsP)
        p4 == get_processing_config(p3.cache, config_dir, loadsP)
        t4 == get_template_config(t1.cache, config_dir, loadsT)
    IN  [raised |-> t1.raised \/ p1.raised,
         tcache |-> t1.cache,
         pcache |-> p1.cache,
         procs  |-> [template_creator |-> [template_config |-> t1.cache,
                                           processing_config |-> p1.cache],
                     step2_processor  |-> [processing_config |-> p2.cache],
                     step3_processor  |-> [processing_config |-> p3.cache],
                     step4_processor  |-> [processing_config |-> p4.cache,
                                           template_config |-> t4.cache]]]

\* what a load attempt can do: nothing is loaded when the cache is filled
LoadOutcomes(cache) == IF cache = None THEN BOOLEAN ELSE {TRUE}

-----------------------------------------------------------------------------
(* The orchestrator.                                                       *)

SheetNames == {<<"a">>, <<"b">>, <<"a", SEP, "Step1">>}

\* Path(source_file).stem of the workbook of the run
base_name == <<"w">>

NoResults == [success_count |-> 0, failed_count |-> 0, step4_files |-> <<>>,
              failed_sheets |-> <<>>, total_sheets |-> 0]

NoPipeline == [constructed |-> FALSE]

\* the per-sheet locals of the loop body before Stage 1 has run
NoPaths == [template_path |-> <<>>, step2_path |-> <<>>, step3_path |-> <<>>]

\* what a file of the output directory holds: the stage that wrote it, for
\* which sheet
NoFile == [sheet |-> <<>>, stage |-> 0]

\* no run in flight: the locals of process_complete_pipeline do not exist
RunIdle ==
    /\ pc' = "idle"
    /\ sheet_names' = <<>>
    /\ k' = 0
    /\ local' = NoPaths
    /\ results' = NoResults
    /\ fs' = << >>
    /\ log' = <<>>

NoRunInFlight == pc \in {"idle", "done"}

Write(files, p, content) ==
    [q \in (DOMAIN files) \cup {p} |-> IF q = p THEN content ELSE files[q]]

\* openpyxl.load_workbook(p): what the run finds at p
Read(files, p) == IF p \in DOMAIN files THEN files[p] ELSE NoFile

InitOrch ==
    /\ _template_config = None
    /\ _processing_config = None
    /\ pipeline = NoPipeline
    /\ pc = "idle"
    /\ sheet_names = <<>>
    /\ k = 0
    /\ local = NoPaths
    /\ results = NoResults
    /\ fs = << >>
    /\ log = <<>>

\* CorePipeline(config_dir=d)
Construct(d) ==
    /\ NoRunInFlight
    /\ \E loadsT \in LoadOutcomes(_template_config),
          loadsP \in LoadOutcomes(_processing_config) :
          LET n == NewProcessors(_template_config, _processing_config, d,
                                 loadsT, loadsP)
          IN  /\ _template_config' = n.tcache
              /\ _processing_config' = n.pcache
              /\ pipeline' = IF n.raised THEN pipeline
                             ELSE [constructed |-> TRUE, config_dir |-> d,
                                   procs |-> n.procs]
    /\ RunIdle
    /\ UNCHANGED <<stage4Vars, stage3Vars, stage2Vars>>

\* ConfigManager.reload_configs(), called by any client
reload_configs ==
    /\ NoRunInFlight
    /\ _template_config # None \/ _processing_config # None
    /\ _template_config' = None
    /\ _processing_config' = None
    /\ RunIdle
    /\ UNCHANGED <<pipeline, stage4Vars, stage3Vars, stage2Vars>>

\* CorePipeline.reload_configuration(): when a constructor raises, the
\* assignments to self.<processor> have not happened
reload_configuration ==
    /\ NoRunInFlight
    /\ pipeline.constructed
    /\ \E loadsT, loadsP \in BOOLEAN :
          LET n == NewProcessors(None, None, pipeline.config_dir,
                                 loadsT, loadsP)
          IN  /\ _template_config' = n.tcache
              /\ _processing_config' = n.pcache
              /\ pipeline' = IF n.raised THEN pipeline
                             ELSE [pipeline EXCEPT !.procs = n.procs]
    /\ RunIdle
    /\ UNCHANGED <<stage4Vars, stage3Vars, stage2Vars>>

\* an except clause that names the failed sheet and forgets the counter
except_uncounted(res, sheet_name) ==
    [res EXCEPT !.failed_sheets = Append(@, sheet_name)]

\* the except clause of the loop body: the sheet is recorded as failed
except(res, sheet_name) ==
    [res EXCEPT !.failed_count = @ + 1,
                !.failed_sheets = Append(@, sheet_name)]

\* the end of the try block: the sheet is recorded with its Step-4 file
succeed(res, sheet_name, step4_path) ==
    [res EXCEPT !.success_count = @ + 1,
                !.step4_files = Append(@, [sheet_name |-> sheet_name,
                                           filename |-> step4_path,
                                           file_path |-> step4_path])]

\* the loop left at the first sheet that is done (a `return` or `break`
\* inside the loop body, or a try that wraps the whole loop)
next_sheet_leaves_loop(i) == MaxSheets + 1

\* `for sheet_name in sheet_names`: the index of the iteration after i
next_sheet(i) == i + 1

\* the arguments the loop body hands to Stage 2, 3 and 4
stage2_arg(paths) == paths.template_path

\* Stage 3 handed the Step-1 template instead of the Step-2 file
stage3_arg_template(paths) == paths.template_path

stage3_arg(paths) == paths.step2_path

stage4_arg(paths) == paths.step3_path

\* an entry of the log: the stage call, the file it loaded, the exceptions
\* raised inside it, and whether one of them reached the orchestrator
LogEntry(sheet, stage, input, exc, raised) ==
    [sheet |-> sheet, stage |-> stage, input |-> input, exc |-> exc,
     raised |-> raised]

\* the orchestrator after a stage call: on an exception the except clause
\* runs and the loop goes on with the next sheet
AfterStage(raised, nextpc, paths) ==
    IF raised
    THEN /\ results' = except(results, sheet_names[k])
         /\ k' = next_sheet(k)
         /\ pc' = "stage1"
         /\ local' = NoPaths
    ELSE /\ results' = results
         /\ k' = k
         /\ pc' = nextpc
         /\ local' = paths

\* process_complete_pipeline(source_file, names) is called
StartRun(names) ==
    /\ NoRunInFlight
    /\ pipeline.constructed
    /\ pc' = "stage1"
    /\ sheet_names' = names
    /\ k' = 1
    /\ local' = NoPaths
    /\ results' = [NoResults EXCEPT !.total_sheets = Len(names)]
    /\ fs' = << >>
    /\ log' = <<>>
    /\ UNCHANGED <<_template_config, _processing_config, pipeline,
                   stage4Vars, stage3Vars, stage2Vars>>

\* Step 1: create_template returns None when anything inside it raised, and
\* the loop body raises "Failed to create template"
Stage1 ==
    /\ pc = "stage1"
    /\ k <= Len(sheet_names)
    /\ \E fails \in BOOLEAN :
          LET sheet == sheet_names[k]
              output_path == file_naming(1, base_name, sheet)
              template_path == IF fails THEN <<>> ELSE output_path
              raised == template_path = <<>>
          IN  /\ fs' = IF fails THEN fs
                       ELSE Write(fs, output_path, [sheet |-> sheet, stage |-> 1])
              /\ log' = Append(log, LogEntry(sheet, 1, NoFile,
                                   IF fails THEN {"error"} ELSE {}, raised))
              /\ AfterStage(raised, "stage2",
                            [local EXCEPT !.template_path = template_path])
    /\ UNCHANGED <<_template_config, _processing_config, pipeline,
                   sheet_names, stage4Vars, stage3Vars, stage2Vars>>

\* Step 2: extract_article_info_from_file swallows a failure to read the
\* source sheet and returns two empty lists; populate_template_with_article_info
\* loads the template, asks ConfigManager for the template configuration
\* (no config_dir), writes and saves
Stage2 ==
    /\ pc = "stage2"
    /\ \E readFails \in BOOLEAN, fault \in {"none", "load", "save"},
          loads \in LoadOutcomes(_template_config) :
          LET sheet == sheet_names[k]
              template_path == stage2_arg(local)
              step2_path == _get_step2_filename(template_path)
              cfg == IF fault = "load"
                     THEN [raised |-> FALSE, cache |-> _template_config]
                     ELSE get_template_config(_template_config, None, loads)
              raised == fault = "load" \/ cfg.raised \/ fault = "save"
              exc == (IF readFails THEN {"read"} ELSE {})
                     \cup (IF cfg.raised THEN {"config"} ELSE {})
                     \cup (IF fault = "load" \/ (~cfg.raised /\ fault = "save")
                           THEN {"error"} ELSE {})
          IN  /\ _template_config' = cfg.cache
              /\ fs' = IF raised THEN fs
                       ELSE Write(fs, step2_path, [sheet |-> sheet, stage |-> 2])
              /\ log' = Append(log, LogEntry(sheet, 2, Read(fs, template_path),
                                             exc, raised))
              /\ AfterStage(raised, "stage3",
                            [local EXCEPT !.step2_path = step2_path])
    /\ UNCHANGED <<_processing_config, pipeline, sheet_names,
                   stage4Vars, stage3Vars, stage2Vars>>

\* Step 3: transfer_data loads the Step-2 file; _find_data_in_file swallows a
\* failure to read the source sheet and returns (None, []); when data was
\* found _transfer_mapped_data asks ConfigManager for the template
\* configuration; _add_checkbox_markings_step3 asks again and swallows
\* whatever it raises; then the file is saved
Stage3 ==
    /\ pc = "stage3"
    /\ \E readFails \in BOOLEAN, found \in BOOLEAN,
          fault \in {"none", "load", "save"},
          loads \in LoadOutcomes(_template_config) :
          LET sheet == sheet_names[k]
              step2_path == stage3_arg(local)
              step3_path == _get_step3_filename(step2_path)
              transfers == fault # "load" /\ ~readFails /\ found
              cfg1 == IF transfers
                      THEN get_template_config(_template_config, None, loads)
                      ELSE [raised |-> FALSE, cache |-> _template_config]
              marks == fault # "load" /\ ~cfg1.raised
              cfg2 == IF marks
                      THEN get_template_config(cfg1.cache, None, loads)
                      ELSE [raised |-> FALSE, cache |-> cfg1.cache]
              raised == fault = "load" \/ cfg1.raised \/ fault = "save"
              exc == (IF fault # "load" /\ readFails THEN {"read"} ELSE {})
                     \cup (IF cfg1.raised \/ cfg2.raised THEN {"config"} ELSE {})
                     \cup (IF fault = "load" \/ (~cfg1.raised /\ fault = "save")
                           THEN {"error"} ELSE {})
          IN  /\ _template_config' = cfg2.cache
              /\ fs' = IF raised THEN fs
                       ELSE Write(fs, step3_path, [sheet |-> sheet, stage |-> 3])
              /\ log' = Append(log, LogEntry(sheet, 3, Read(fs, step2_path),
                                             exc, raised))
              /\ AfterStage(raised, "stage4",
                            [local EXCEPT !.step3_path = step3_path])
    /\ UNCHANGED <<_processing_config, pipeline, sheet_names,
                   stage4Vars, stage3Vars, stage2Vars>>

\* Step 4: remove_duplicates loads the Step-3 file, transforms, and asks
\* ConfigManager for the template configuration in _extract_unique_rows and
\* in _create_deduplicated_file; every exception is raised again.  On return
\* the loop body records the sheet and its Step-4 file.
Stage4 ==
    /\ pc = "stage4"
    /\ \E fault \in {"none", "load", "save"},
          loads \in LoadOutcomes(_template_config) :
          LET sheet == sheet_names[k]
              step3_path == stage4_arg(local)
              step4_path == _get_step4_filename(step3_path)
              cfg == IF fault = "load"
                     THEN [raised |-> FALSE, cache |-> _template_config]
                     ELSE get_template_config(_template_config, None, loads)
              raised == fault = "load" \/ cfg.raised \/ fault = "save"
              exc == (IF cfg.raised THEN {"config"} ELSE {})
                     \cup (IF fault = "load" \/ (~cfg.raised /\ fault = "save")
                           THEN {"error"} ELSE {})
          IN  /\ _template_config' = cfg.cache
              /\ fs' = IF raised THEN fs
                       ELSE Write(fs, step4_path, [sheet |-> sheet, stage |-> 4])
              /\ log' = Append(log, LogEntry(sheet, 4, Read(fs, step3_path),
                                             exc, raised))
              /\ IF raised
                 THEN results' = except(results, sheet)
                 ELSE results' = succeed(results, sheet, step4_path)
              /\ k' = next_sheet(k)
              /\ pc' = "stage1"
              /\ local' = NoPaths
    /\ UNCHANGED <<_processing_config, pipeline, sheet_names,
                   stage4Vars, stage3Vars, stage2Vars>>

\* the for loop is exhausted: `return results`
Return ==
    /\ pc = "stage1"
    /\ k > Len(sheet_names)
    /\ pc' = "done"
    /\ UNCHANGED <<_template_config, _processing_config, pipeline,
                   sheet_names, k, local, results, fs, log,
                   stage4Vars, stage3Vars, stage2Vars>>

-----------------------------------------------------------------------------
(* Text and cells.  A text is a sequence of characters.  A cell is its     *)
(* value and its style; the style stands for the attributes that the code  *)
(* copies together (font, fill, alignment, border).  A cell without a      *)
(* value (None) and a cell holding "" are both the empty text: every read  *)
(* of a cell in Stage 3 and Stage 4 is `if cell.value` or                  *)
(* `str(cell.value).strip() if cell.value is not None else ""`, which do   *)
(* not tell them apart.                                                    *)

Min(a, b) == IF a <= b THEN a ELSE b

\* the whitespace of str.strip(): the space and the newline ("NL")
IsSpace(ch) == ch \in {" ", "NL"}

RECURSIVE lstrip(_)
lstrip(t) == IF t # <<>> /\ IsSpace(Head(t)) THEN lstrip(Tail(t)) ELSE t

RECURSIVE rstrip(_)
rstrip(t) ==
    IF t # <<>> /\ IsSpace(t[Len(t)]) THEN rstrip(SubSeq(t, 1, Len(t) - 1))
    ELSE t

\* str.strip()
strip(t) == rstrip(lstrip(t))

LowerOf(ch) ==
    CASE ch = "A" -> "a" [] ch = "B" -> "b" [] ch = "S" -> "s"
      [] ch = "D" -> "d" [] ch = "C" -> "c" [] OTHER -> ch

UpperOf(ch) ==
    CASE ch = "a" -> "A" [] ch = "b" -> "B" [] ch = "s" -> "S"
      [] ch = "d" -> "D" [] ch = "c" -> "C" [] OTHER -> ch

\* str.lower() and str.upper()
lower(t) == [i \in 1..Len(t) |-> LowerOf(t[i])]

upper(t) == [i \in 1..Len(t) |-> UpperOf(t[i])]

\* `if cell.value`
Truthy(value) == value # <<>>

\* `cell.value and str(cell.value).strip()`
HasText(value) == Truthy(value) /\ strip(value) # <<>>

\* the style of a cell that was never styled
DefaultStyle ==
    [bold |-> FALSE, color |-> "none", italic |-> FALSE, underline |-> "none",
     fill |-> "none", horizontal |-> "none", vertical |-> "none",
     wrap_text |-> FALSE, text_rotation |-> 0, border |-> "none"]

\* create_template: bold font in the header's colour, solid fill in its
\* background colour, header_alignment
HeaderStyle ==
    [DefaultStyle EXCEPT !.bold = TRUE, !.color = "font_color",
                         !.fill = "bg_color", !.horizontal = "center",
                         !.vertical = "center", !.wrap_text = TRUE]

\* populate_template_with_article_info: the style of an article name, with
\* the rotation of article_name_alignment
ArticleNameStyle ==
    [DefaultStyle EXCEPT !.bold = TRUE, !.color = "article", !.fill = "article",
                         !.horizontal = "center", !.vertical = "center",
                         !.text_rotation = 90]

\* the style of an article number: no rotation
ArticleNumberStyle ==
    [DefaultStyle EXCEPT !.bold = TRUE, !.color = "article", !.fill = "article",
                         !.horizontal = "center", !.vertical = "center"]

\* a copy that leaves the rotation out of the Alignment
copy_style_unrotated(style) ==
    [bold |-> style.bold, color |-> style.color, italic |-> style.italic,
     underline |-> style.underline, fill |-> style.fill,
     horizontal |-> style.horizontal, vertical |-> style.vertical,
     wrap_text |-> style.wrap_text, text_rotation |-> 0,
     border |-> style.border]

\* the formatting that _create_deduplicated_file gives a new cell: a Font
\* of the source's bold, color, italic and underline, a PatternFill of its
\* colours and fill type, an Alignment of its horizontal, vertical,
\* wrap_text and text_rotation, a Border of its four sides
copy_style(style) ==
    [bold |-> style.bold, color |-> style.color, italic |-> style.italic,
     underline |-> style.underline, fill |-> style.fill,
     horizontal |-> style.horizontal, vertical |-> style.vertical,
     wrap_text |-> style.wrap_text, text_rotation |-> style.text_rotation,
     border |-> style.border]

EmptyCell == [value |-> <<>>, style |-> DefaultStyle]

Cell(value, style) == [value |-> value, style |-> style]

\* a value that pandas or openpyxl hands over: a string or a number; a
\* number is kept as its text together with the mark that it is a number
Str(text) == [num |-> FALSE, text |-> text]

Num(text) == [num |-> TRUE, text |-> text]

\* a target cell that nothing was written to
Unset == Str(<<>>)

\* bool(value)
bool(value) == IF value.num THEN value.text # <<"0">> ELSE value.text # <<>>

\* str(value)
str(value) == value.text

\* float('nan'), the value pandas gives an empty cell
NaN == Num(<<"nan">>)

\* pd.isna(cell_value)
isna(value) == value = NaN

\* `pattern in text`
contains(text, pattern) == \E i \in 1..Len(text) : IsPrefixAt(pattern, text, i)

Letters ==
    <<"A", "B", "C", "D", "E", "F", "G", "H", "I", "J", "K", "L", "M",
      "N", "O", "P", "Q", "R", "S", "T", "U", "V", "W", "X", "Y", "Z">>

\* a Step-2 document without article names and numbers
NoArticleInfo == [names |-> <<>>, numbers |-> <<>>]

\* column_index_from_string(article_name_start_column): R
start_column_index == 18

\* a Step-2 document with four articles: their names and numbers fill the
\* columns R, S, T and U
FourArticles ==
    [names |-> <<Str(<<"n">>), Str(<<"m">>), Str(<<"o">>), Str(<<"p">>)>>,
     numbers |-> <<Str(<<"1">>), Str(<<"2">>), Str(<<"3">>), Str(<<"4">>)>>]

\* the article names and numbers a Step-2 document holds from column R on
ArticleInfos ==
    {NoArticleInfo,
     [names |-> <<Str(<<"n">>)>>, numbers |-> <<>>],
     [names |-> <<Str(<<"n">>)>>, numbers |-> <<Str(<<"1">>), Str(<<"2">>)>>]}


-----------------------------------------------------------------------------
(* Stage 4: CoreStep4DuplicateRemover.  A worksheet is the sequence of its *)
(* data rows: row i of the sequence is sheet row data_start_row + i - 1,   *)
(* and the length of the sequence is max_row - data_start_row + 1.         *)

\* layout_config["data_start_row"]
data_start_row == 11

\* step4_config["comparison_columns"]: columns A-K
comparison_columns == 1..11

\* step4_config["max_columns"]
max_columns == 20

\* step4_config["transformations"]["column_a_replacements"], in dictionary
\* order
column_a_replacements ==
    <<[search_term |-> <<"a">>, replacement |-> <<"b">>],
      [search_term |-> <<"A">>, replacement |-> <<"c">>]>>

\* step4_config["transformations"]["column_h_k_logic"]["sd_empty_k"]
sd_empty_k == TRUE

\* worksheet.max_column
max_column == NCols

RowNum(i) == data_start_row + i - 1

\* the row_has_data test of _apply_data_transformations
row_has_data(row) ==
    \E col \in 1..(Min(15, max_column + 1) - 1) : HasText(row[col].value)

\* a loop without the break: the last search term that equals the value
\* gives the replacement
RECURSIVE replace_column_a_last(_, _)
replace_column_a_last(value, replacements) ==
    IF replacements = <<>> THEN value
    ELSE LET rest == replace_column_a_last(value, Tail(replacements))
         IN  IF /\ rest = value
                /\ lower(Head(replacements).search_term) = lower(strip(value))
             THEN Head(replacements).replacement
             ELSE rest

\* the loop over column_a_replacements.items(): the replacement of the first
\* search term that equals the value ignoring case, or the value itself
RECURSIVE replace_column_a(_, _)
replace_column_a(value, replacements) ==
    IF replacements = <<>> THEN value
    ELSE IF lower(Head(replacements).search_term) = lower(strip(value))
         THEN Head(replacements).replacement
         ELSE replace_column_a(value, Tail(replacements))

\* a row loop that compares column H with "SD" as it is written
transform_row_same_case(row) ==
    LET a == IF HasText(row[1].value)
             THEN [row EXCEPT ![1].value =
                       replace_column_a(row[1].value, column_a_replacements)]
             ELSE row
    IN  IF /\ sd_empty_k
           /\ Truthy(a[8].value) /\ strip(a[8].value) = <<"S", "D">>
           /\ HasText(a[11].value)
        THEN [a EXCEPT ![11].value = <<>>]
        ELSE a

\* the body of the row loop of _apply_data_transformations
transform_row(row) ==
    LET a == IF HasText(row[1].value)
             THEN [row EXCEPT ![1].value =
                       replace_column_a(row[1].value, column_a_replacements)]
             ELSE row
    IN  IF /\ sd_empty_k
           /\ Truthy(a[8].value) /\ upper(strip(a[8].value)) = <<"S", "D">>
           /\ HasText(a[11].value)
        THEN [a EXCEPT ![11].value = <<>>]
        ELSE a

\* _apply_data_transformations(worksheet, layout_config)
_apply_data_transformations(ws) ==
    [i \in 1..Len(ws) |-> IF row_has_data(ws[i]) THEN transform_row(ws[i])
                          ELSE ws[i]]

\* a key built from the raw values, without str.strip()
comparison_key_unstripped(row, max_col) ==
    LET cols == {c \in 1..max_col : c \in comparison_columns}
    IN  [c \in cols |-> row[c].value]

\* comparison_key of _extract_unique_rows: the stripped values of the
\* comparison columns among the columns 1..max_col
comparison_key(row, max_col) ==
    LET cols == {c \in 1..max_col : c \in comparison_columns}
    IN  [c \in cols |-> strip(row[c].value)]

\* a row loop that starts one row late
data_row_range_late(n) == 2..n

\* range(data_start_row, worksheet.max_row + 1), as indices of the sequence
data_row_range(n) == 1..n

\* a duplicate that replaces the row kept for its key
keep_row_last(unique, i, row, key, max_col) ==
    LET entry == [row_num |-> RowNum(i), key |-> key,
                  cells |-> [c \in 1..max_col |-> row[c]]]
    IN  IF \E u \in 1..Len(unique) : unique[u].key = key
        THEN [u \in 1..Len(unique) |->
                 IF unique[u].key = key THEN entry ELSE unique[u]]
        ELSE Append(unique, entry)

\* the end of the row loop of _extract_unique_rows: a row whose key is not
\* in seen_combinations is appended with its row number and its cells
keep_row(unique, i, row, key, max_col) ==
    IF \E u \in 1..Len(unique) : unique[u].key = key
    THEN unique
    ELSE Append(unique, [row_num |-> RowNum(i), key |-> key,
                         cells |-> [c \in 1..max_col |-> row[c]]])

RECURSIVE scan_rows(_, _, _, _)
scan_rows(ws, i, n, unique) ==
    IF i > n THEN unique
    ELSE LET max_col == Min(max_column, max_columns)
             key == comparison_key(ws[i], max_col)
         IN  scan_rows(ws, i + 1, n,
                       IF i \in data_row_range(n)
                       THEN keep_row(unique, i, ws[i], key, max_col)
                       ELSE unique)

\* _extract_unique_rows(worksheet): the kept rows, each with its row number
\* (the key of an entry stands for its membership in seen_combinations)
_extract_unique_rows(ws) == scan_rows(ws, 1, Len(ws), <<>>)

\* a data loop that writes the value and leaves the formatting out
written_cell_unstyled(source_cell) ==
    IF Truthy(source_cell.value)
    THEN Cell(source_cell.value, DefaultStyle)
    ELSE EmptyCell

\* the cell that the data loop of _create_deduplicated_file leaves at the
\* place of source_cell: value and style are copied when the value is
\* truthy, nothing is written otherwise
written_cell(source_cell) ==
    IF Truthy(source_cell.value)
    THEN Cell(source_cell.value, copy_style(source_cell.style))
    ELSE EmptyCell

\* layout["header_row"]: the last row of the header block
layout_header_row == 10

\* layout["article_info_rows"]: an article name is written in row 1 and
\* merged down to row 9, an article number is written in row 10
article_name_row == 1

article_name_merge_end == 9

article_number_start_row == 10

\* len(template_structure["headers"]): the headers of columns A to Q
headers == 17

\* header_info["width"] of the header of column col
header_width(col) == 10 + col

\* a worksheet without cells: no header block.  The cells of a header
\* block are kept by their position <<row, column>>; a position that holds
\* no cell reads as an empty cell of the default style
NoHead == [cells |-> <<>>, merged_cells |-> {}, column_dimensions |-> <<>>]

\* worksheet.cell(row, col) of a header block
cell_at(head, row, col) ==
    IF <<row, col>> \in DOMAIN head.cells THEN head.cells[<<row, col>>]
    ELSE EmptyCell

\* the header block of the worksheet that create_template builds: the
\* headers in the header row, and a width for each of their columns
create_template ==
    [cells |->
        [pos \in {<<layout_header_row, col>> : col \in 1..headers}
            |-> Cell(<<"h">>, HeaderStyle)],
     merged_cells |-> {},
     column_dimensions |->
        [col_letter \in {Letters[col] : col \in 1..headers} |->
            header_width(CHOOSE col \in 1..headers : Letters[col] = col_letter)]]

\* layout["article_info_rows"] of the template configuration in use
article_info_rows ==
    [article_name_row |-> article_name_row,
     article_name_merge_end |-> article_name_merge_end,
     article_number_start_row |-> article_number_start_row]

\* a number row that is the row of the names
article_number_row_of_names(layout) == layout.article_name_row

\* article_number_start_row = layout_config["article_number_start_row"]
article_number_row(layout) == layout.article_number_start_row

\* a populate that writes a number only below a name
populate_below_names(head, info, layout) ==
    LET name_cells == {<<layout.article_name_row, start_column_index + i - 1>> :
                          i \in 1..Len(info.names)}
        number_cells == {<<article_number_row(layout),
                           start_column_index + i - 1>> :
                            i \in 1..Min(Len(info.names), Len(info.numbers))}
    IN  [head EXCEPT
           !.cells =
              [pos \in DOMAIN head.cells \cup name_cells \cup number_cells |->
                 IF pos \in number_cells
                 THEN Cell(str(info.numbers[pos[2] - start_column_index + 1]),
                           ArticleNumberStyle)
                 ELSE IF pos \in name_cells
                 THEN Cell(str(info.names[pos[2] - start_column_index + 1]),
                           ArticleNameStyle)
                 ELSE head.cells[pos]],
           !.merged_cells =
              head.merged_cells \cup
              {[col |-> pos[2], min_row |-> layout.article_name_row,
                max_row |-> layout.article_name_merge_end] :
                  pos \in name_cells}]

\* the header block after populate_template_with_article_info: the i-th name
\* in row 1 of the column at offset i - 1 from R, merged down to row 9, the
\* i-th number in row 10 of that column
populate_template_with_article_info(head, info, layout) ==
    LET name_cells == {<<layout.article_name_row, start_column_index + i - 1>> :
                          i \in 1..Len(info.names)}
        number_cells == {<<article_number_row(layout),
                           start_column_index + i - 1>> :
                            i \in 1..Len(info.numbers)}
    IN  [head EXCEPT
           !.cells =
              [pos \in DOMAIN head.cells \cup name_cells \cup number_cells |->
                 IF pos \in number_cells
                 THEN Cell(str(info.numbers[pos[2] - start_column_index + 1]),
                           ArticleNumberStyle)
                 ELSE IF pos \in name_cells
                 THEN Cell(str(info.names[pos[2] - start_column_index + 1]),
                           ArticleNameStyle)
                 ELSE head.cells[pos]],
           !.merged_cells =
              head.merged_cells \cup
              {[col |-> pos[2], min_row |-> layout.article_name_row,
                max_row |-> layout.article_name_merge_end] :
                  pos \in name_cells}]

\* the header block of a Step-3 file, by the article names and numbers that
\* Stage 2 has found
Step3Head(info) ==
    populate_template_with_article_info(create_template, info,
                                        article_info_rows)

\* source_worksheet.max_column: the last column that holds a cell, in the
\* header block or in the data rows
worksheet_max_column(head) ==
    LET cols == {pos[2] : pos \in DOMAIN head.cells} \cup {max_column}
    IN  CHOOSE col \in cols : \A other \in cols : other <= col

\* chr(64 + col)
chr_64_plus(col) == IF col <= Len(Letters) THEN Letters[col] ELSE "["

\* the header block that _create_deduplicated_file builds: every merged
\* range of the source, the value and the formatting of every cell of the
\* rows 1 to header_row, and, in the first row, the width of every column
\* that has one
copy_header_rows(head) ==
    LET copied == {chr_64_plus(col) : col \in 1..worksheet_max_column(head)}
                     \cap DOMAIN head.column_dimensions
    IN  [cells |->
            [pos \in {q \in DOMAIN head.cells :
                         /\ q[1] \in 1..layout_header_row
                         /\ q[2] \in 1..worksheet_max_column(head)} |->
                Cell(head.cells[pos].value, copy_style(head.cells[pos].style))],
         merged_cells |-> head.merged_cells,
         column_dimensions |->
            [col_letter \in (IF layout_header_row >= 1 THEN copied ELSE {}) |->
                head.column_dimensions[col_letter]]]

\* the data rows of the worksheet that _create_deduplicated_file builds: row
\* j of unique_rows is written at data_start_row + j - 1; new_ws.max_row is
\* the last row in which a cell was written
_create_deduplicated_file(unique) ==
    LET rows == [j \in 1..Len(unique) |->
                    [c \in 1..NCols |->
                        IF c <= Len(unique[j].cells)
                        THEN written_cell(unique[j].cells[c])
                        ELSE EmptyCell]]
        wrote(j) == \E c \in 1..NCols : rows[j][c] # EmptyCell
        last == IF \E j \in 1..Len(rows) : wrote(j)
                THEN CHOOSE j \in 1..Len(rows) :
                        wrote(j) /\ \A j2 \in (j + 1)..Len(rows) : ~wrote(j2)
                ELSE 0
    IN  SubSeq(rows, 1, last)

\* the Step-3 file as it was loaded, before _apply_data_transformations
ws_as_loaded == step3_file

\* the worksheet that remove_duplicates hands to _extract_unique_rows: the
\* one in memory, after _apply_data_transformations has changed it
ws_at_dedupe == worksheet

\* the rows of a result of _extract_unique_rows, laid out as a worksheet
RowsOf(unique) ==
    [j \in 1..Len(unique) |->
        [c \in 1..NCols |-> IF c <= Len(unique[j].cells)
                            THEN unique[j].cells[c] ELSE EmptyCell]]

-----------------------------------------------------------------------------
(* Stage 4 as a state machine: remove_duplicates(step3_path) on one Step-3 *)
(* file, followed by a second _extract_unique_rows over the rows that the  *)
(* first one returned.                                                     *)

ValuesA == {<<"a">>, <<"b">>, <<"b", " ">>}

ValuesH == {<<>>, <<"s", "d">>}

ValuesK == {<<>>, <<"k">>}

BlankRow == [c \in 1..NCols |-> EmptyCell]

DataRow(col_a, col_h, col_k, col_l) ==
    [c \in 1..NCols |->
        CASE c = 1 -> Cell(col_a, DefaultStyle)
          [] c = 8 -> Cell(col_h, DefaultStyle)
          [] c = 11 -> Cell(col_k, DefaultStyle)
          [] c = 12 -> col_l
          [] OTHER -> EmptyCell]

\* the rows a Step-3 file is made of: a blank row, every combination of the
\* values of the columns A, H and K, and a row with a styled value in
\* column L, outside the comparison columns
Stage4Rows ==
    {BlankRow} \cup
    {DataRow(col_a, col_h, col_k, EmptyCell) :
        col_a \in ValuesA, col_h \in ValuesH, col_k \in ValuesK} \cup
    {DataRow(<<"b">>, <<>>, <<>>, Cell(<<"p">>, HeaderStyle))}

\* the data rows of a Step-3 file: max_row is a row that holds a cell, so
\* the last row is not blank
\* the rows of the longest files: the blank row, the styled row, and the
\* rows that differ from one another in one comparison column only
LongFileRows ==
    {BlankRow,
     DataRow(<<"b">>, <<>>, <<>>, EmptyCell),
     DataRow(<<"b", " ">>, <<>>, <<>>, EmptyCell),
     DataRow(<<"a">>, <<"s", "d">>, <<"k">>, EmptyCell),
     DataRow(<<"b">>, <<"s", "d">>, <<"k">>, EmptyCell),
     DataRow(<<"b">>, <<"s", "d">>, <<>>, EmptyCell),
     DataRow(<<"b">>, <<>>, <<>>, Cell(<<"p">>, HeaderStyle))}

Step3Files ==
    {f \in UNION {[1..n -> Stage4Rows] : n \in 0..(MaxRows - 1)}
            \cup [1..MaxRows -> LongFileRows] :
        Len(f) = 0 \/ f[Len(f)] # BlankRow}

\* openpyxl.load_workbook(step3_path)
LoadStep3(f, head) ==
    /\ pc4 = "loaded"
    /\ ws_head = head
    /\ new_head = NoHead
    /\ step3_file = f
    /\ worksheet = f
    /\ unique_rows = <<>>
    /\ new_ws = <<>>
    /\ unique_again = <<>>

\* self._apply_data_transformations(ws, layout_config)
Transform ==
    /\ pc4 = "loaded"
    /\ worksheet' = _apply_data_transformations(worksheet)
    /\ pc4' = "transformed"
    /\ UNCHANGED <<unique_rows, new_ws, unique_again, step3_file, ws_head,
                   new_head>>
    /\ UNCHANGED <<orchVars, stage3Vars, stage2Vars>>

\* unique_rows = self._extract_unique_rows(ws)
Extract ==
    /\ pc4 = "transformed"
    /\ unique_rows' = _extract_unique_rows(ws_at_dedupe)
    /\ pc4' = "extracted"
    /\ UNCHANGED <<worksheet, new_ws, unique_again, step3_file, ws_head,
                   new_head>>
    /\ UNCHANGED <<orchVars, stage3Vars, stage2Vars>>

\* self._create_deduplicated_file(ws, unique_rows, step4_path)
Create ==
    /\ pc4 = "extracted"
    /\ new_head' = copy_header_rows(ws_head)
    /\ new_ws' = _create_deduplicated_file(unique_rows)
    /\ pc4' = "created"
    /\ UNCHANGED <<worksheet, unique_rows, unique_again, step3_file, ws_head>>
    /\ UNCHANGED <<orchVars, stage3Vars, stage2Vars>>

\* _extract_unique_rows once more, over the rows of unique_rows
ExtractAgain ==
    /\ pc4 = "created"
    /\ unique_again' = _extract_unique_rows(RowsOf(unique_rows))
    /\ pc4' = "again"
    /\ UNCHANGED <<worksheet, unique_rows, new_ws, step3_file, ws_head,
                   new_head>>
    /\ UNCHANGED <<orchVars, stage3Vars, stage2Vars>>

-----------------------------------------------------------------------------
(* Stage 3: CoreStep3DataTransfer.transfer_data.  A value of the           *)
(* source row is what pandas hands over: a string or a number; a number is *)
(* kept as its text together with the mark that it is a number, because    *)
(* `value and ...` is false for the number 0 and true for the string "0".  *)

\* ord(letter) - ord('A')
ord_minus_A(letter) ==
    (CHOOSE n \in 1..Len(Letters) : Letters[n] = letter) - 1

\* step3_config["column_mapping"], in dictionary order
column_mapping ==
    <<<<"A", "A">>, <<"B", "B">>, <<"C", "C">>, <<"D", "D">>, <<"I", "E">>,
      <<"J", "F">>, <<"S", "H">>, <<"N", "J">>, <<"O", "K">>, <<"P", "L">>,
      <<"R", "M">>, <<"Z", "N">>, <<"T", "O">>, <<"Q", "P">>>>

\* step3_config["column_combinations"]: L + M -> I, joined by "-"
column_combinations ==
    <<[target_col |-> "I", source_columns |-> <<"L", "M">>,
       separator |-> <<"-">>]>>

\* separator.join(values)
RECURSIVE str_join(_, _)
str_join(separator, values) ==
    IF values = <<>> THEN <<>>
    ELSE IF Len(values) = 1 THEN values[1]
    ELSE values[1] \o separator \o str_join(separator, Tail(values))

\* the loop over column_mapping.items() for one row: a source value that is
\* there, truthy and not blank is written, as it is, to the target column
RECURSIVE map_row(_, _, _)
map_row(target_row, row_data, mapping) ==
    IF mapping = <<>> THEN target_row
    ELSE LET source_idx == ord_minus_A(Head(mapping)[1])
             target_idx == ord_minus_A(Head(mapping)[2]) + 1
             source_value == row_data[source_idx + 1]
             written ==
                IF /\ source_idx < Len(row_data)
                   /\ bool(source_value) /\ strip(str(source_value)) # <<>>
                THEN [target_row EXCEPT ![target_idx] = source_value]
                ELSE target_row
         IN  map_row(written, row_data, Tail(mapping))

\* `value and str(value).strip()` in _apply_column_combinations
usable(value) == bool(value) /\ strip(str(value)) # <<>>

\* the values list of _apply_column_combinations for one row and one rule
RECURSIVE collect_values(_, _)
collect_values(row_data, source_cols) ==
    IF source_cols = <<>> THEN <<>>
    ELSE LET source_idx == ord_minus_A(Head(source_cols))
             rest == collect_values(row_data, Tail(source_cols))
         IN  IF source_idx < Len(row_data) /\ usable(row_data[source_idx + 1])
             THEN <<strip(str(row_data[source_idx + 1]))>> \o rest
             ELSE rest

\* `if len(values) == len(source_cols)`
combination_written(values, source_cols) == Len(values) = Len(source_cols)

\* the loop over column_combinations.items() for one row
RECURSIVE combine_row(_, _, _)
combine_row(target_row, row_data, combinations) ==
    IF combinations = <<>> THEN target_row
    ELSE LET config == Head(combinations)
             values == collect_values(row_data, config.source_columns)
             target_idx == ord_minus_A(config.target_col) + 1
             written ==
                IF combination_written(values, config.source_columns)
                THEN [target_row EXCEPT ![target_idx] =
                         Str(str_join(config.separator, values))]
                ELSE target_row
         IN  combine_row(written, row_data, Tail(combinations))

\* _apply_column_combinations(worksheet, data_rows, start_row)
_apply_column_combinations(ws, rows) ==
    [r \in 1..Len(rows) |-> combine_row(ws[r], rows[r], column_combinations)]

\* _transfer_mapped_data(worksheet, data_rows, header_row): the mapping loop
\* and then _apply_column_combinations
_transfer_mapped_data(ws, rows) ==
    _apply_column_combinations(
        [r \in 1..Len(rows) |-> map_row(ws[r], rows[r], column_mapping)],
        rows)

\* the data rows of the Step-2 worksheet: nothing is written below the
\* header block before Stage 3
EmptyTargetRow == [c \in 1..Len(Letters) |-> Unset]

\* step3_config["header_pattern"], shortened to one letter
header_pattern == <<"C">>

\* step3_config.get("data_start_offset", 3)
data_start_offset == 3

\* header_row = None
NoHeader == -1

\* the test of the header search on the cells of one row
row_has_header(row) ==
    \E c \in 1..Len(row) :
       /\ ~isna(row[c])
       /\ contains(upper(strip(str(row[c]))), upper(header_pattern))

\* the header search of _find_data_in_dataframe from the row at position p
\* (index p - 1) on: the index of the first row with a matching cell
RECURSIVE find_header_row(_, _)
find_header_row(df, p) ==
    IF p > Len(df) THEN NoHeader
    ELSE IF row_has_header(df[p]) THEN p - 1
    ELSE find_header_row(df, p + 1)

\* df.iloc[idx].fillna('').tolist()
fillna(row) ==
    [c \in 1..Len(row) |-> IF isna(row[c]) THEN Str(<<>>) ELSE row[c]]

\* any(str(cell).strip() for cell in row_data)
any_cell(row_data) ==
    \E c \in 1..Len(row_data) : strip(str(row_data[c])) # <<>>

\* the loop `for idx in range(actual_data_start_row, len(df))`: empty rows
\* are skipped, every other row is appended
RECURSIVE extract_rows(_, _)
extract_rows(df, idx) ==
    IF idx >= Len(df) THEN <<>>
    ELSE LET row_data == fillna(df[idx + 1])
         IN  (IF any_cell(row_data) THEN <<row_data>> ELSE <<>>)
                \o extract_rows(df, idx + 1)

\* _find_data_in_dataframe(df)
_find_data_in_dataframe(df) ==
    LET found == find_header_row(df, 1)
    IN  [header_row |-> found,
         data_rows |-> IF found # NoHeader
                       THEN extract_rows(df, found + data_start_offset)
                       ELSE <<>>]

\* has_article_info of the column at offset i - 1 from R: rows 1-10 of the
\* column hold the i-th article name (row 1) and number (row 10)
has_article_info(info, i) ==
    \/ i <= Len(info.names) /\ usable(info.names[i])
    \/ i <= Len(info.numbers) /\ usable(info.numbers[i])

\* article_columns of _add_checkbox_markings_step3
article_columns(info) ==
    {start_column_index + i - 1 : i \in {j \in 1..10 : has_article_info(info, j)}}

\* row_has_data of _add_checkbox_markings_step3: columns A-N
row_has_data_step3(row) == \E col \in 1..14 : usable(row[col])

\* _add_checkbox_markings_step3(ws)
_add_checkbox_markings_step3(ws, info) ==
    [r \in 1..Len(ws) |->
        IF row_has_data_step3(ws[r])
        THEN [c \in DOMAIN ws[r] |->
                 IF c \in article_columns(info) THEN Str(<<"X">>) ELSE ws[r][c]]
        ELSE ws[r]]

\* widths of the source sheet: with column M, and ending at column L
SourceWidths == {12, 13}

ValuesOfA == {Str(<<>>), Str(<<"q">>)}

ValuesOfL == {Str(<<>>), Str(<<"x">>), Str(<<" ">>), Str(<<" ", "x">>),
              Num(<<"0">>)}

ValuesOfM == {Str(<<>>), Str(<<"y">>), Num(<<"0">>)}

SourceRow(width, col_a, col_l, col_m) ==
    [c \in 1..width |->
        CASE c = 1 -> col_a
          [] c = 12 -> col_l
          [] c = 13 -> col_m
          [] OTHER -> Str(<<>>)]

\* the rows that _find_data_in_dataframe keeps: those with a cell whose text
\* is not blank; one of them holds the number 0 in the mapped column A
SourceRows(width) ==
    {row \in {SourceRow(width, col_a, col_l, col_m) :
                 col_a \in ValuesOfA, col_l \in ValuesOfL, col_m \in ValuesOfM}
              \cup {SourceRow(width, Num(<<"0">>), Str(<<>>), Str(<<>>))} :
        \E c \in 1..width : strip(str(row[c])) # <<>>}

\* a row as pandas reads it: an empty cell is NaN
AsRead(row) ==
    [c \in 1..Len(row) |-> IF row[c] = Str(<<>>) THEN NaN ELSE row[c]]

\* a row of the sheet above the data, by the cell that may hold the header
TopRow(width, col, value) ==
    [c \in 1..width |-> IF c = col THEN value ELSE NaN]

\* the rows above the data: empty, with the header text as configured in
\* the first column, with the header text in lower case in the second
TopRows(width) ==
    {TopRow(width, 1, NaN), TopRow(width, 1, Str(<<" ", "C", "x">>)),
     TopRow(width, 2, Str(<<"c">>))}

\* the rows of the data region of a plain sheet: an empty row, two rows
\* with a value in column A
PlainRows(width) ==
    {TopRow(width, 1, NaN), TopRow(width, 1, Str(<<"q">>)),
     TopRow(width, 1, Str(<<"r">>))}

\* a source sheet with the header in the first row and the data rows below
\* the two rows that follow the header
DataSheet(width, rows) ==
    <<TopRow(width, 1, Str(<<" ", "C", "x">>)), TopRow(width, 1, NaN),
      TopRow(width, 1, NaN)>> \o [r \in 1..Len(rows) |-> AsRead(rows[r])]

\* the width of the sheets whose rows above the data vary
LayoutWidth == 13

\* the width of the sheets that reach column Q, which column_mapping sends
\* to column P
WideWidth == 17

\* the rows of a wide sheet: a value in column A, a value in column Q
WideRows ==
    {TopRow(WideWidth, 1, Str(<<"q">>)), TopRow(WideWidth, WideWidth, Str(<<"w">>))}

\* wb = openpyxl.load_workbook(step2_path) and the sheet that pandas reads
LoadStep2(df, info) ==
    /\ pc3 = "read"
    /\ df3 = df
    /\ ws3_info = info
    /\ header_row = NoHeader
    /\ data_rows = <<>>
    /\ ws3 = <<>>

\* header_row, data_rows = self._find_data_in_file(original_source, sheet_name)
FindData ==
    /\ pc3 = "read"
    /\ header_row' = _find_data_in_dataframe(df3).header_row
    /\ data_rows' = _find_data_in_dataframe(df3).data_rows
    /\ pc3' = "found"
    /\ UNCHANGED <<df3, ws3_info, ws3>>
    /\ UNCHANGED legacyVars
    /\ UNCHANGED <<orchVars, stage4Vars, stage2Vars>>

\* `if header_row is not None and data_rows`
found_data == header_row # NoHeader /\ data_rows # <<>>

\* self._transfer_mapped_data(ws, data_rows, header_row)
TransferMappedData ==
    /\ pc3 = "found"
    /\ found_data
    /\ ws3' = _transfer_mapped_data(
                 [r \in 1..Len(data_rows) |-> EmptyTargetRow], data_rows)
    /\ pc3' = "transferred"
    /\ UNCHANGED <<df3, header_row, data_rows, ws3_info>>
    /\ UNCHANGED legacyVars
    /\ UNCHANGED <<orchVars, stage4Vars, stage2Vars>>

\* the else branch: nothing is transferred
NoDataFound ==
    /\ pc3 = "found"
    /\ ~found_data
    /\ pc3' = "transferred"
    /\ UNCHANGED <<df3, header_row, data_rows, ws3_info, ws3>>
    /\ UNCHANGED legacyVars
    /\ UNCHANGED <<orchVars, stage4Vars, stage2Vars>>

\* self._add_checkbox_markings_step3(ws); wb.save(step3_path)
MarkAndSave ==
    /\ pc3 = "transferred"
    /\ ws3' = _add_checkbox_markings_step3(ws3, ws3_info)
    /\ pc3' = "saved"
    /\ UNCHANGED <<df3, header_row, data_rows, ws3_info>>
    /\ UNCHANGED legacyVars
    /\ UNCHANGED <<orchVars, stage4Vars, stage2Vars>>

\* the rows of a saved Step-3 document as Stage 4 loads them, in the
\* columns that the worksheet of Stage 4 has: max_row is the last row that
\* holds a cell
step3_rows(ws) ==
    LET rows == [r \in 1..Len(ws) |->
                    [c \in 1..NCols |-> Cell(str(ws[r][c]), DefaultStyle)]]
        last == IF \E r \in 1..Len(rows) : rows[r] # BlankRow
                THEN CHOOSE r \in 1..Len(rows) :
                        rows[r] # BlankRow
                        /\ \A r2 \in (r + 1)..Len(rows) : rows[r2] = BlankRow
                ELSE 0
    IN  SubSeq(rows, 1, last)

\* process_complete_pipeline hands the Step-3 file to remove_duplicates,
\* which loads it
LoadSaved ==
    /\ pc3 = "saved"
    /\ pc4 = "off"
    /\ pc4' = "loaded"
    /\ step3_file' = step3_rows(ws3)
    /\ worksheet' = step3_rows(ws3)
    /\ ws_head' = Step3Head(ws3_info)
    /\ UNCHANGED <<unique_rows, new_ws, unique_again, new_head>>
    /\ UNCHANGED <<orchVars, stage3Vars, stage2Vars>>

-----------------------------------------------------------------------------
(* Stage 2: CoreStep2Processor._search_article_info_in_dataframe.  The     *)
(* source sheet is the DataFrame that pandas returns: a sequence of rows   *)
(* (row p of the sequence has the index p - 1), every row a sequence of    *)
(* cells, an empty cell being NaN.                                         *)

\* None, for a field that no label has resolved yet
NoText == [none |-> TRUE, text |-> <<>>]

SomeText(text) == [none |-> FALSE, text |-> text]

\* step2_config["product_name_patterns"], in list order
product_name_patterns == <<<<"P", ":">>, <<"P">>>>

\* step2_config["article_number_patterns"], in list order
article_number_patterns == <<<<"A", ":">>, <<"A">>>>

\* text.find(pattern), as a position counted from 1 (0: not found)
find(text, pattern) ==
    IF contains(text, pattern)
    THEN CHOOSE i \in 1..Len(text) :
            /\ IsPrefixAt(pattern, text, i)
            /\ \A j \in 1..(i - 1) : ~IsPrefixAt(pattern, text, j)
    ELSE 0

\* the while loop of _extract_value_after_pattern
RECURSIVE drop_separators(_)
drop_separators(after_pattern) ==
    IF after_pattern # <<>> /\ after_pattern[1] \in {":", " "}
    THEN drop_separators(strip(Tail(after_pattern)))
    ELSE after_pattern

\* _extract_value_after_pattern(text, pattern)
_extract_value_after_pattern(text, pattern) ==
    LET pattern_index == find(text, pattern)
        after_pattern ==
            drop_separators(
                strip(SubSeq(text, pattern_index + Len(pattern), Len(text))))
    IN  IF pattern_index = 0 THEN NoText
        ELSE IF after_pattern # <<>> THEN SomeText(after_pattern)
        ELSE NoText

\* the next cell as it is, without str.strip()
next_cell_unstripped(row, c) == SomeText(str(row[c + 1]))

\* `article_name = str(next_cell_value).strip()`
next_cell_text(row, c) == SomeText(strip(str(row[c + 1])))

\* `not article_name`
not_text(field) == field.none \/ field.text = <<>>

\* the first pattern of the list that the text contains (0: none does)
first_pattern(text, patterns) ==
    IF \E m \in 1..Len(patterns) : contains(text, patterns[m])
    THEN CHOOSE m \in 1..Len(patterns) :
            /\ contains(text, patterns[m])
            /\ \A m2 \in 1..(m - 1) : ~contains(text, patterns[m2])
    ELSE 0

\* the block `if article_name is None: for pattern in ...patterns:` for the
\* cell at position c of the row: the value after the first pattern that the
\* cell contains, else the stripped next cell of the row when there is one
\* and it is not NaN
search_field(field, row, c, patterns) ==
    LET cell_str == strip(str(row[c]))
        m == first_pattern(cell_str, patterns)
        in_cell == _extract_value_after_pattern(cell_str, patterns[m])
    IN  IF ~field.none \/ m = 0 THEN field
        ELSE IF not_text(in_cell) /\ c < Len(row) /\ ~isna(row[c + 1])
             THEN next_cell_text(row, c)
             ELSE in_cell

\* the two loops over the rows and the cells of a row; a row whose index is
\* above 11 ends the scan.  The early `break` when both fields are set skips
\* cells that could not change a field any more.
RECURSIVE scan_cells(_, _, _, _, _)
scan_cells(df, p, c, field, patterns) ==
    IF p > Len(df) \/ p - 1 > 11 THEN field
    ELSE IF c > Len(df[p]) THEN scan_cells(df, p + 1, 1, field, patterns)
    ELSE scan_cells(df, p, c + 1,
                    IF isna(df[p][c]) THEN field
                    ELSE search_field(field, df[p], c, patterns),
                    patterns)

\* re.split(r'[<separators>]+', text)
RECURSIVE re_split(_, _)
re_split(text, separators) ==
    IF \A i \in 1..Len(text) : text[i] \notin separators THEN <<text>>
    ELSE LET i == CHOOSE i \in 1..Len(text) :
                     /\ text[i] \in separators
                     /\ \A j \in 1..(i - 1) : text[j] \notin separators
             j == CHOOSE j \in i..Len(text) :
                     /\ \A n \in i..j : text[n] \in separators
                     /\ j = Len(text) \/ text[j + 1] \notin separators
         IN  <<SubSeq(text, 1, i - 1)>>
                \o re_split(SubSeq(text, j + 1, Len(text)), separators)

\* [name.strip() for name in names if name.strip()]
RECURSIVE stripped_nonempty(_)
stripped_nonempty(parts) ==
    IF parts = <<>> THEN <<>>
    ELSE IF strip(Head(parts)) # <<>>
         THEN <<strip(Head(parts))>> \o stripped_nonempty(Tail(parts))
         ELSE stripped_nonempty(Tail(parts))

\* the separators of a name, with the comma among them
name_separators_with_comma == {",", "NL", ";"}

\* r'[\n;]+'
name_separators == {"NL", ";"}

\* r'[,\n;]+'
number_separators == {",", "NL", ";"}

\* the lists built at the end of _search_article_info_in_dataframe
split_field(field, separators) ==
    IF not_text(field) THEN <<>>
    ELSE stripped_nonempty(re_split(strip(field.text), separators))

\* the cells of the row with the index 0, the first that the scan reads
ScannedCells ==
    {NaN, Str(<<"P", ":">>), Str(<<"A", ":", " ">>), Str(<<"P", ":", "x">>),
     Str(<<" ", "x", ",", "y", ";", "NL", "z", " ">>), Str(<<" ">>)}

\* the cells of the row with the index 11, the last that the scan reads
LastScannedCells ==
    {NaN, Str(<<"A", ":", " ">>), Str(<<"P", ":", "x">>),
     Str(<<" ", "x", ",", "y", ";", "NL", "z", " ">>)}

\* the cells of the row with the index 12, which the scan does not reach
UnscannedCells == {NaN, Str(<<"P", ":", "x">>)}

NaNRow == [c \in 1..MaxDfCols |-> NaN]

\* the cells of the sheets that are processed under another layout: the
\* two labels and a value
LabelledCells ==
    {Str(<<"P", ":">>), Str(<<"A", ":", " ">>),
     Str(<<" ", "x", ",", "y", ";", "NL", "z", " ">>)}

\* other layouts with article_name_row <= article_name_merge_end <
\* data_start_row: the numbers in the row of the names, in a row inside the
\* merged rows, and in the row above the names
OtherLayouts ==
    {[article_name_row |-> 1, article_name_merge_end |-> 9,
      article_number_start_row |-> 1],
     [article_name_row |-> 1, article_name_merge_end |-> 9,
      article_number_start_row |-> 5],
     [article_name_row |-> 2, article_name_merge_end |-> 9,
      article_number_start_row |-> 1]}

\* a sheet of 13 rows: the rows with the indices 0, 11 and 12 hold values
SourceSheet(row0, row11, row12) ==
    [p \in 1..13 |-> CASE p = 1 -> row0
                       [] p = 12 -> row11
                       [] p = 13 -> row12
                       [] OTHER -> NaNRow]

\* df = pd.read_excel(file_path, sheet_name=sheet_name, header=None)
ReadSheet(df, layout) ==
    /\ pc2 = "read"
    /\ df2 = df
    /\ article_name = NoText
    /\ article_number = NoText
    /\ article_names = <<>>
    /\ article_numbers = <<>>
    /\ ws2 = NoHead
    /\ layout_config = layout

\* self._search_article_info_in_dataframe(df)
SearchArticleInfo ==
    /\ pc2 = "read"
    /\ LET name == scan_cells(df2, 1, 1, NoText, product_name_patterns)
           number == scan_cells(df2, 1, 1, NoText, article_number_patterns)
       IN  /\ article_name' = name
           /\ article_number' = number
           /\ article_names' = split_field(name, name_separators)
           /\ article_numbers' = split_field(number, number_separators)
    /\ pc2' = "searched"
    /\ UNCHANGED <<df2, ws2, layout_config>>
    /\ UNCHANGED <<orchVars, stage4Vars, stage3Vars>>

\* the lists that process_complete_pipeline hands from the search to
\* populate_template_with_article_info
found_article_info ==
    [names |-> [i \in 1..Len(article_names) |-> Str(article_names[i])],
     numbers |-> [i \in 1..Len(article_numbers) |-> Str(article_numbers[i])]]

\* ws.cell(article_number_start_row, current_column_index, article_number)
\* addresses a cell inside the range merged for a name, below its first row
writes_merged_cell(info, layout) ==
    /\ \E i \in 1..Len(info.numbers) : i <= Len(info.names)
    /\ layout.article_name_row < layout.article_number_start_row
    /\ layout.article_number_start_row <= layout.article_name_merge_end

\* self.populate_template_with_article_info(template_path, article_names,
\* article_numbers) on the template of Stage 1
Populate ==
    /\ pc2 = "searched"
    /\ ~writes_merged_cell(found_article_info, layout_config)
    /\ ws2' = populate_template_with_article_info(create_template,
                                                  found_article_info,
                                                  layout_config)
    /\ pc2' = "populated"
    /\ UNCHANGED <<df2, article_name, article_number, article_names,
                   article_numbers, layout_config>>
    /\ UNCHANGED <<orchVars, stage4Vars, stage3Vars>>

\* the same call when a number is to be written into a cell that a name's
\* merged range covers below its first row: the cell is a MergedCell, whose
\* value cannot be set; the exception is logged and raised, and no Step-2
\* file is saved
PopulateRaises ==
    /\ pc2 = "searched"
    /\ writes_merged_cell(found_article_info, layout_config)
    /\ pc2' = "failed"
    /\ UNCHANGED <<df2, article_name, article_number, article_names,
                   article_numbers, ws2, layout_config>>
    /\ UNCHANGED <<orchVars, stage4Vars, stage3Vars>>

-----------------------------------------------------------------------------
(* The web-application path of Stage 3: Step3DataTransfer                  *)
(* (src/modules/step3_data_transfer.py), which app.py calls.  The source   *)
(* sheet is read with openpyxl: rows and columns count from 1, an empty    *)
(* cell holds None (NaN here), and every value is turned into its          *)
(* stripped text.                                                          *)

\* the window of the header search of Step3DataTransfer.find_header_row,
\* as its comments give it: "Search first 50 rows", "Search first 30 columns"
search_rows == 50

search_columns == 30

\* "defaulting to row 13"
default_header_row == 13

\* "Start writing data from row 4 (after headers)"
start_row == 4

\* self.lm_combination_target
lm_combination_target == "I"

\* worksheet.cell(row, col).value
cell_value(sheet, row, col) ==
    IF row <= Len(sheet) /\ col <= Len(sheet[row]) THEN sheet[row][col]
    ELSE NaN

\* Step3DataTransfer.find_header_row(worksheet): the first row of the
\* window with a string cell that contains the pattern, else row 13
legacy_find_header_row(sheet) ==
    LET rows == 1..(Min(search_rows, Len(sheet) + 1) - 1)
        cols == 1..(Min(search_columns, Len(sheet[1]) + 1) - 1)
        found == {row \in rows :
                     \E col \in cols :
                        LET value == cell_value(sheet, row, col)
                        IN  /\ ~value.num
                            /\ value.text # <<>>
                            /\ contains(strip(value.text), header_pattern)}
    IN  IF found = {} THEN default_header_row
        ELSE CHOOSE row \in found : \A other \in found : row <= other

\* Step3DataTransfer.get_data_start_row(header_row)
get_data_start_row(row) == row + 4

\* row_data of one row: the stripped text of every cell of columns A..Z,
\* "" for an empty cell
legacy_row_data(sheet, row) ==
    [col_num \in 1..Len(Letters) |->
        IF isna(cell_value(sheet, row, col_num)) THEN <<>>
        ELSE strip(str(cell_value(sheet, row, col_num)))]

\* has_data of one row
has_data(sheet, row) ==
    \E col_num \in 1..Len(Letters) : ~isna(cell_value(sheet, row, col_num))

\* the loop `for row in range(data_start_row, ws.max_row + 1)`: a row with
\* data is appended, an empty row after data ends the loop
RECURSIVE legacy_extract_rows(_, _, _)
legacy_extract_rows(sheet, row, rows) ==
    IF row > Len(sheet) THEN rows
    ELSE IF has_data(sheet, row)
         THEN legacy_extract_rows(sheet, row + 1,
                                  Append(rows, legacy_row_data(sheet, row)))
         ELSE IF Len(rows) > 0 THEN rows
              ELSE legacy_extract_rows(sheet, row + 1, rows)

\* the data_rows that extract_data_from_original_sheet returns
extract_data_from_original_sheet(sheet) ==
    legacy_extract_rows(sheet,
                        get_data_start_row(legacy_find_header_row(sheet)),
                        <<>>)

\* Step3DataTransfer.apply_column_mapping(source_row_data): the mapped
\* columns (self.column_mapping holds the pairs of column_mapping), and
\* the L and M values in column I: joined by "-" when both are there, the
\* one that is there otherwise
apply_column_mapping(source_row_data) ==
    LET l_value == strip(source_row_data[ord_minus_A("L") + 1])
        m_value == strip(source_row_data[ord_minus_A("M") + 1])
        combined_value ==
            IF l_value # <<>> /\ m_value # <<>>
            THEN l_value \o <<"-">> \o m_value
            ELSE IF l_value # <<>> THEN l_value
            ELSE m_value
    IN  [t \in 1..Len(Letters) |->
            IF Letters[t] = lm_combination_target THEN combined_value
            ELSE IF \E i \in 1..Len(column_mapping) :
                        column_mapping[i][2] = Letters[t]
                 THEN LET i == CHOOSE i \in 1..Len(column_mapping) :
                                  column_mapping[i][2] = Letters[t]
                      IN  source_row_data[
                              ord_minus_A(column_mapping[i][1]) + 1]
                 ELSE <<>>]

\* Step3DataTransfer.populate_step2_template_with_data: the rows of the
\* document from start_row on; `if value` writes the values that are not ""
populate_step2_template_with_data(mapped_data_rows) ==
    [i \in 1..Len(mapped_data_rows) |->
        [t \in 1..Len(Letters) |->
            IF mapped_data_rows[i][t] # <<>>
            THEN Str(mapped_data_rows[i][t])
            ELSE Unset]]

\* rows of the data region of the sheets of the web-application path
LegacyRows ==
    {AsRead(SourceRow(13, col_a, col_l, col_m)) :
        col_a \in ValuesOfA,
        col_l \in {Str(<<>>), Str(<<"x">>), Str(<<" ">>)},
        col_m \in {Str(<<>>), Str(<<"y">>), Num(<<"0">>)}}

\* a sheet with the header cell in the first row and the data rows below
\* the three rows that follow it
LegacySheet(header, rows) ==
    <<TopRow(13, 1, header), TopRow(13, 1, NaN), TopRow(13, 1, NaN),
      TopRow(13, 1, NaN)>> \o rows

\* the sheet of the uploaded file is opened and the Step-2 file is there
LoadOriginal(sheet) ==
    /\ pc_legacy = "loaded"
    /\ ws_original = sheet
    /\ legacy_data_rows = <<>>
    /\ step3_doc = <<>>

\* Step3DataTransfer.process_sheet_to_step3(uploaded_file, sheet_name,
\* step2_file_path): extraction, mapping of every row, Step-3 file
process_sheet_to_step3 ==
    /\ pc_legacy = "loaded"
    /\ LET rows == extract_data_from_original_sheet(ws_original)
           mapped_data_rows ==
               [r \in 1..Len(rows) |-> apply_column_mapping(rows[r])]
       IN  /\ legacy_data_rows' = rows
           /\ step3_doc' =
                  populate_step2_template_with_data(mapped_data_rows)
    /\ pc_legacy' = "saved"
    /\ UNCHANGED ws_original
    /\ UNCHANGED <<pc3, df3, header_row, data_rows, ws3_info, ws3>>
    /\ UNCHANGED <<orchVars, stage4Vars, stage2Vars>>

-----------------------------------------------------------------------------
(* The stage-level variables are at rest under Spec, and the orchestrator  *)
(* is at rest under SpecStage4 and SpecStage3.                             *)

Stage4AtRest ==
    /\ pc4 = "off"
    /\ worksheet = <<>>
    /\ unique_rows = <<>>
    /\ new_ws = <<>>
    /\ unique_again = <<>>
    /\ step3_file = <<>>
    /\ ws_head = NoHead
    /\ new_head = NoHead

LegacyAtRest ==
    /\ pc_legacy = "off"
    /\ ws_original = <<>>
    /\ legacy_data_rows = <<>>
    /\ step3_doc = <<>>

Stage3AtRest ==
    /\ LegacyAtRest
    /\ pc3 = "off"
    /\ df3 = <<>>
    /\ header_row = NoHeader
    /\ data_rows = <<>>
    /\ ws3_info = NoArticleInfo
    /\ ws3 = <<>>

Stage2AtRest ==
    /\ pc2 = "off"
    /\ df2 = <<>>
    /\ article_name = NoText
    /\ article_number = NoText
    /\ article_names = <<>>
    /\ article_numbers = <<>>
    /\ ws2 = NoHead
    /\ layout_config = article_info_rows

\* the state after `CorePipeline()` has been constructed from the default
\* configuration directory
InitOrchConstructed ==
    LET n == NewProcessors(None, None, None, TRUE, TRUE)
    IN  /\ _template_config = n.tcache
        /\ _processing_config = n.pcache
        /\ pipeline = [constructed |-> TRUE, config_dir |-> None,
                       procs |-> n.procs]
        /\ pc = "idle"
        /\ sheet_names = <<>>
        /\ k = 0
        /\ local = NoPaths
        /\ results = NoResults
        /\ fs = << >>
        /\ log = <<>>

Init == InitOrchConstructed /\ Stage4AtRest /\ Stage3AtRest /\ Stage2AtRest

Next ==
    \/ reload_configs
    \/ \E names \in DistinctSeqs(SheetNames, MaxSheets) : StartRun(names)
    \/ Stage1
    \/ Stage2
    \/ Stage3
    \/ Stage4
    \/ Return

Spec == Init /\ [][Next]_vars

\* the configuration life cycle: pipelines are constructed and reloaded
\* between runs of at most MaxConfigSheets sheets
InitConfig == InitOrch /\ Stage4AtRest /\ Stage3AtRest /\ Stage2AtRest

NextConfig ==
    \/ \E d \in {None, "D"} : Construct(d)
    \/ reload_configs
    \/ reload_configuration
    \/ \E names \in DistinctSeqs(SheetNames, MaxConfigSheets) : StartRun(names)
    \/ Stage1
    \/ Stage2
    \/ Stage3
    \/ Stage4
    \/ Return

SpecConfig == InitConfig /\ [][NextConfig]_vars

\* Stage 4 alone: a Step-3 file is loaded and remove_duplicates runs on it
InitStage4 ==
    /\ InitOrchConstructed
    /\ Stage3AtRest
    /\ Stage2AtRest
    /\ \E f \in Step3Files, info \in ArticleInfos :
          /\ Len(f) <= 1 \/ info = NoArticleInfo
          /\ LoadStep3(f, Step3Head(info))

NextStage4 ==
    \/ Transform
    \/ Extract
    \/ Create
    \/ ExtractAgain

SpecStage4 == InitStage4 /\ [][NextStage4]_vars

\* Stage 3 alone: transfer_data on a source sheet and a Step-2 document,
\* and remove_duplicates on the Step-3 file it saved
InitStage3 ==
    /\ InitOrchConstructed
    /\ LegacyAtRest
    /\ Stage4AtRest
    /\ Stage2AtRest
    /\ \/ \E width \in SourceWidths, n \in 1..MaxDataRows :
             \E rows \in [1..n -> SourceRows(width)] :
                LoadStep2(DataSheet(width, rows),
                          [names |-> <<Str(<<"n">>)>>, numbers |-> <<>>])
       \/ \E n \in 1..MaxDataRows, info \in ArticleInfos \cup {FourArticles} :
             \E rows \in [1..n -> WideRows] :
                LoadStep2(DataSheet(WideWidth, rows), info)
       \/ \E n \in 0..(MaxDataRows + 1), info \in ArticleInfos :
             \E top \in [1..3 -> TopRows(LayoutWidth)],
                body \in [1..n -> PlainRows(LayoutWidth)] :
                LoadStep2(top \o body, info)

NextStage3 ==
    \/ FindData
    \/ TransferMappedData
    \/ NoDataFound
    \/ MarkAndSave
    \/ LoadSaved
    \/ Transform
    \/ Extract
    \/ Create

SpecStage3 == InitStage3 /\ [][NextStage3]_vars

\* Stage 2 alone: the article information of a source sheet is searched
InitStage2 ==
    /\ InitOrchConstructed
    /\ Stage4AtRest
    /\ Stage3AtRest
    /\ \/ \E row0 \in [1..MaxDfCols -> ScannedCells],
                row11 \in [1..MaxDfCols -> LastScannedCells] :
             \E cell12 \in UnscannedCells :
                ReadSheet(SourceSheet(row0, row11,
                                      [c \in 1..MaxDfCols |-> cell12]),
                          article_info_rows)
       \/ \E row0, row11 \in [1..MaxDfCols -> LabelledCells],
                layout \in OtherLayouts :
             ReadSheet(SourceSheet(row0, row11, NaNRow), layout)

NextStage2 == SearchArticleInfo \/ Populate \/ PopulateRaises

SpecStage2 == InitStage2 /\ [][NextStage2]_vars

\* Stage 3 of the web application alone: process_sheet_to_step3 on a sheet
\* whose header cell is found, or is not (lower case)
InitLegacy ==
    /\ InitOrchConstructed
    /\ Stage4AtRest
    /\ Stage2AtRest
    /\ pc3 = "off"
    /\ df3 = <<>>
    /\ header_row = NoHeader
    /\ data_rows = <<>>
    /\ ws3_info = NoArticleInfo
    /\ ws3 = <<>>
    /\ \E n \in 0..MaxDataRows,
          header \in {Str(<<" ", "C", "x">>), Str(<<"c">>)} :
          \E rows \in [1..n -> LegacyRows] :
             LoadOriginal(LegacySheet(header, rows))

NextLegacy == process_sheet_to_step3

SpecLegacy == InitLegacy /\ [][NextLegacy]_vars

-----------------------------------------------------------------------------
(* Properties of the orchestrator.                                         *)

\* position of a sheet in the sheet_names of the run (0 when absent)
IndexOf(sheet) ==
    IF \E i \in 1..Len(sheet_names) : sheet_names[i] = sheet
    THEN CHOOSE i \in 1..Len(sheet_names) : sheet_names[i] = sheet
    ELSE 0

LogOf(sheet) == SelectSeq(log, LAMBDA e : e.sheet = sheet)

\* a stage of the sheet raised to the orchestrator
Raised(sheet) == \E p \in 1..Len(log) : log[p].sheet = sheet /\ log[p].raised

\* stage n was called for the sheet
RanStage(sheet, n) ==
    \E p \in 1..Len(log) : log[p].sheet = sheet /\ log[p].stage = n

SucceededSheets ==
    [i \in 1..Len(results.step4_files) |-> results.step4_files[i].sheet_name]

\* the Step-4 path of a sheet processed on its own
Step4PathAlone(sheet) ==
    _get_step4_filename(_get_step3_filename(_get_step2_filename(
        file_naming(1, base_name, sheet))))

\* the number of sheets the loop has recorded, as succeeded or as failed
Recorded == Len(results.step4_files) + Len(results.failed_sheets)

\* C1: per-sheet isolation.  When process_complete_pipeline returns, every
\* sheet of the list has been taken through the stages up to the first one
\* of its own that raised, whatever happened to the sheets before and after
\* it: a sheet none of whose stages raised ran all four stages and is
\* reported with the Step-4 file it gets when processed alone, and the
\* failure list holds exactly the sheets one of whose own stages raised.
C1_PerSheetIsolation ==
    pc = "done" =>
        \A i \in 1..Len(sheet_names) :
            LET s == sheet_names[i]
            IN  /\ RanStage(s, 1)
                /\ (s \in Range(results.failed_sheets)) <=> Raised(s)
                /\ ~Raised(s) =>
                      /\ \A n \in 1..4 : RanStage(s, n)
                      /\ \E j \in 1..Len(results.step4_files) :
                            /\ results.step4_files[j].sheet_name = s
                            /\ results.step4_files[j].file_path
                                  = Step4PathAlone(s)

\* C1 witness: three sheets, the second raised in Stage 3, the first and the
\* third completed, and the failure list is exactly the second sheet.
C1_Witness ==
    /\ pc = "done"
    /\ Len(sheet_names) = 3
    /\ \E p \in 1..Len(log) :
          log[p].sheet = sheet_names[2] /\ log[p].stage = 3 /\ log[p].raised
    /\ results.failed_sheets = <<sheet_names[2]>>
    /\ SucceededSheets = <<sheet_names[1], sheet_names[3]>>

\* C2 as claimed: every exception raised inside a stage, a failure to read
\* the source sheet in Stage 2 or Stage 3 included, aborts the sheet: it is
\* in the failed list, the stage it was raised in is the last one run for
\* the sheet, and the sheet has no Step-4 entry.
C2_AnyExceptionAbortsSheet ==
    pc = "done" =>
        \A p \in 1..Len(log) :
            log[p].exc # {} =>
                /\ log[p].sheet \in Range(results.failed_sheets)
                /\ \A q \in (p + 1)..Len(log) : log[q].sheet # log[p].sheet
                /\ log[p].sheet \notin Range(SucceededSheets)

\* C3 as claimed: a configuration load failure never makes a per-sheet
\* failure: no stage call of a run meets a configuration that cannot be
\* loaded, and no sheet is in the failed list because of one.
C3_ConfigFailureNeverPerSheet ==
    \A p \in 1..Len(log) :
        ~ ( /\ "config" \in log[p].exc
            /\ log[p].sheet \in Range(results.failed_sheets) )

\* C4: stage ordering.  Every call of Stage n + 1 directly follows the call
\* of Stage n of the same sheet, which did not raise, and loads the file that
\* Stage n of that sheet wrote; the calls are grouped by sheet in the order
\* of the list, and a sheet's Stage 1 is called only when every sheet before
\* it has been recorded as succeeded or failed.
C4_StageOrdering ==
    /\ \A p \in 1..Len(log) :
          LET e == log[p]
          IN  /\ IndexOf(e.sheet) # 0
              /\ IndexOf(e.sheet) <= Recorded + 1
              /\ e.stage = 1 =>
                    \/ p = 1 /\ IndexOf(e.sheet) = 1
                    \/ /\ p > 1
                       /\ IndexOf(log[p - 1].sheet) = IndexOf(e.sheet) - 1
                       /\ log[p - 1].raised \/ log[p - 1].stage = 4
              /\ e.stage > 1 =>
                    /\ p > 1
                    /\ log[p - 1].sheet = e.sheet
                    /\ log[p - 1].stage = e.stage - 1
                    /\ ~log[p - 1].raised
                    /\ e.input = [sheet |-> e.sheet, stage |-> e.stage - 1]
    /\ pc \in {"stage2", "stage3", "stage4"} => Recorded = k - 1

\* C4 witness: two sheets in a row went through all four stages.
C4_Witness ==
    /\ Len(log) >= 8
    /\ \A n \in 1..4 : log[n].stage = n /\ log[n + 4].stage = n
    /\ log[4].sheet # log[5].sheet

\* C5: result accounting.  On return every sheet of the list is in exactly
\* one of step4_files and failed_sheets, both lists are in the order of the
\* list, the counters equal the lengths of the lists and add up to
\* total_sheets, and a succeeded sheet has exactly one Step-4 entry.
C5_ResultAccounting ==
    pc = "done" =>
        LET S == SucceededSheets
            F == results.failed_sheets
        IN  /\ \A i \in 1..Len(sheet_names) :
                  LET s == sheet_names[i]
                  IN  /\ (s \in Range(S)) # (s \in Range(F))
                      /\ s \in Range(S) =>
                            Cardinality({j \in 1..Len(S) : S[j] = s}) = 1
            /\ S = SelectSeq(sheet_names, LAMBDA s : s \in Range(S))
            /\ F = SelectSeq(sheet_names, LAMBDA s : s \in Range(F))
            /\ results.success_count = Len(S)
            /\ results.failed_count = Len(F)
            /\ results.success_count + results.failed_count
                  = results.total_sheets
            /\ results.total_sheets = Len(sheet_names)

\* C5 witness: a run of three sheets returned with both lists non-empty.
C5_Witness ==
    /\ pc = "done"
    /\ Len(sheet_names) = 3
    /\ results.success_count = 2
    /\ results.failed_count = 1


-----------------------------------------------------------------------------
(* Stage 4 claims.  The definitions below are the specification's side:    *)
(* the key of a row, and what the transformations make of a row, written   *)
(* from the specification's statement of them.                             *)

DedupeDone == pc4 \in {"extracted", "created", "again"}

FileCreated == pc4 \in {"created", "again"}

\* comparison key: the trimmed values at the comparison columns, a column
\* the row does not have counting as empty
KeyOf(row) ==
    [c \in comparison_columns |->
        IF c \in DOMAIN row THEN strip(row[c].value) ELSE <<>>]

\* the keys of the rows of a worksheet
KeysOf(ws) == [i \in 1..Len(ws) |-> KeyOf(ws[i])]

\* no earlier entry of keys equals entry i
FirstOfKey(keys, i) == \A j \in 1..(i - 1) : keys[j] # keys[i]

Retained(i) == \E u \in 1..Len(unique_rows) : unique_rows[u].row_num = RowNum(i)

\* the cells of a row that _extract_unique_rows collects: those of the
\* columns 1..min(worksheet.max_column, self.max_columns)
CollectedCells(row) == SubSeq(row, 1, Min(Len(row), max_columns))

\* C6: dedupe keeps a data row exactly when no earlier data row has the same
\* comparison key; the retained rows are in the order of their first
\* occurrence and each carries its original row index and its cells.
C6_DedupeKeepsFirstOccurrences ==
    DedupeDone =>
        /\ LET keys == KeysOf(worksheet)
           IN  \A i \in 1..Len(worksheet) :
                  Retained(i) <=> FirstOfKey(keys, i)
        /\ \A u, v \in 1..Len(unique_rows) :
              u < v => unique_rows[u].row_num < unique_rows[v].row_num
        /\ \A u \in 1..Len(unique_rows) :
              \E i \in 1..Len(worksheet) :
                 /\ unique_rows[u].row_num = RowNum(i)
                 /\ unique_rows[u].cells = CollectedCells(worksheet[i])

\* three rows, the third a duplicate of the first that differs from it in
\* the untrimmed text; the first two are kept
C6_Witness ==
    /\ pc4 = "extracted"
    /\ Len(worksheet) = 3
    /\ KeyOf(worksheet[3]) = KeyOf(worksheet[1])
    /\ worksheet[3] # worksheet[1]
    /\ Len(unique_rows) = 2
    /\ unique_rows[1].row_num = RowNum(1)
    /\ unique_rows[2].row_num = RowNum(2)

\* C7: dedupe applied to the rows produced by a previous dedupe returns the
\* identical sequence of rows: nothing further is dropped or reordered.
C7_DedupeIdempotent ==
    pc4 = "again" =>
        /\ Len(unique_again) = Len(unique_rows)
        /\ \A u \in 1..Len(unique_again) :
              /\ unique_again[u].row_num = RowNum(u)
              /\ unique_again[u].cells = unique_rows[u].cells

\* the first dedupe dropped a row and kept two, the second kept both
C7_Witness ==
    /\ pc4 = "again"
    /\ Len(unique_rows) = 2
    /\ Len(worksheet) = 3
    /\ Len(unique_again) = 2

\* the first entry of keys that equals entry i
FirstIndex(keys, i) ==
    CHOOSE j \in 1..i : keys[j] = keys[i] /\ FirstOfKey(keys, j)

ReplacedA(value) ==
    LET hits == {m \in 1..Len(column_a_replacements) :
                    lower(column_a_replacements[m].search_term)
                        = lower(strip(value))}
    IN  IF hits = {} THEN value
        ELSE column_a_replacements[CHOOSE m \in hits :
                                      \A m2 \in hits : m <= m2].replacement

\* the conditional rule clears column K of the row
ClearsK(row) == upper(strip(row[8].value)) = <<"S", "D">>

SameOutside(r1, r2, col) ==
    \A c \in 1..NCols : c # col => r1[c] = r2[c]

\* two rows that differ only in a column-A value mapped to one replacement,
\* or only in a column-K value that the conditional rule clears
CollideAfterTransform(r1, r2) ==
    \/ /\ SameOutside(r1, r2, 1)
       /\ r1[1] # r2[1]
       /\ HasText(r1[1].value) /\ HasText(r2[1].value)
       /\ r1[1].style = r2[1].style
       /\ strip(ReplacedA(r1[1].value)) = strip(ReplacedA(r2[1].value))
    \/ /\ SameOutside(r1, r2, 11)
       /\ r1[11] # r2[11]
       /\ r1[11].style = r2[11].style
       /\ ClearsK(r1)

\* the key of a row once the transformations are applied
KeyAfter(row) ==
    [c \in comparison_columns |->
        CASE c = 1 -> strip(ReplacedA(row[1].value))
          [] c = 11 -> IF ClearsK(row) THEN <<>> ELSE strip(row[11].value)
          [] OTHER -> strip(row[c].value)]

\* C9: the transformations are applied to every data row before any key is
\* computed: two rows of the Step-3 file that differ only in a column-A value
\* mapped to the same replacement, or only in a column-K value cleared by the
\* conditional rule, are a single row in the Step-4 document.
C9_TransformBeforeDedupe ==
    FileCreated =>
        LET written == KeysOf(new_ws)
        IN  \A i \in 1..Len(step3_file) : \A j \in (i + 1)..Len(step3_file) :
               CollideAfterTransform(step3_file[i], step3_file[j]) =>
                  /\ ~Retained(j)
                  /\ Cardinality({u \in 1..Len(written) :
                         written[u] = KeyAfter(step3_file[i])}) = 1

\* rows "a"/SD/k, "b"/SD/k and "b"/SD/-: one row "b"/SD/- in Step 4
C9_Witness ==
    /\ pc4 = "created"
    /\ Len(step3_file) = 3
    /\ step3_file[1][1].value = <<"a">>
    /\ step3_file[2][1].value = <<"b">>
    /\ CollideAfterTransform(step3_file[1], step3_file[2])
    /\ step3_file[2][11].value = <<"k">>
    /\ step3_file[3][11].value = <<>>
    /\ CollideAfterTransform(step3_file[2], step3_file[3])
    /\ Len(new_ws) = 1
    /\ new_ws[1][1].value = <<"b">>
    /\ new_ws[1][11].value = <<>>


-----------------------------------------------------------------------------
(* Stage 3 claims.                                                         *)

\* the trimmed value of a source column in a row, empty when the row has
\* no such column
TrimmedSource(row_data, letter) ==
    IF ord_minus_A(letter) + 1 \in DOMAIN row_data
    THEN strip(str(row_data[ord_minus_A(letter) + 1]))
    ELSE <<>>

\* C10: for every data row and every combination rule, the target column
\* receives the separator-joined trimmed source values if and only if every
\* source column has a non-empty trimmed value in the row; otherwise the rule
\* writes nothing for the row.
C10_CombinationAllOrNothing ==
    pc3 = "transferred" =>
        \A r \in 1..Len(data_rows) :
           \A m \in 1..Len(column_combinations) :
              LET rule == column_combinations[m]
                  target == ws3[r][ord_minus_A(rule.target_col) + 1]
                  trimmed == [n \in 1..Len(rule.source_columns) |->
                                 TrimmedSource(data_rows[r],
                                               rule.source_columns[n])]
              IN  IF \A n \in 1..Len(trimmed) : trimmed[n] # <<>>
                  THEN target = Str(str_join(rule.separator, trimmed))
                  ELSE target = Unset


-----------------------------------------------------------------------------
(* Stage 2 claims.                                                         *)

\* the positions of the cells that the scan reads, in row-major order
ScanOrder(df) ==
    {<<p, c>> : p \in 1..Min(Len(df), 12), c \in 1..MaxDfCols}

Before(x, y) == x[1] < y[1] \/ (x[1] = y[1] /\ x[2] < y[2])

\* the cell at x holds text that contains a label of the class
IsLabel(df, x, patterns) ==
    /\ ~isna(df[x[1]][x[2]])
    /\ first_pattern(strip(str(df[x[1]][x[2]])), patterns) # 0

\* nothing but ':' and whitespace follows the label in the cell at x
RemainderEmpty(df, x, patterns) ==
    LET text == strip(str(df[x[1]][x[2]]))
        pattern == patterns[first_pattern(text, patterns)]
    IN  \A i \in (find(text, pattern) + Len(pattern))..Len(text) :
           text[i] = ":" \/ IsSpace(text[i])

HasNext(df, x) == x[2] < Len(df[x[1]]) /\ ~isna(df[x[1]][x[2] + 1])

NextText(df, x) == strip(str(df[x[1]][x[2] + 1]))

\* the label at x is the one the field is taken from: every label cell before
\* it has an empty remainder and no cell next to it
Deciding(df, x, patterns) ==
    /\ IsLabel(df, x, patterns)
    /\ \A y \in ScanOrder(df) :
          (Before(y, x) /\ IsLabel(df, y, patterns)) =>
             RemainderEmpty(df, y, patterns) /\ ~HasNext(df, y)

FallbackHolds(field, patterns) ==
    \A x \in ScanOrder(df2) :
       (/\ Deciding(df2, x, patterns)
        /\ RemainderEmpty(df2, x, patterns)
        /\ HasNext(df2, x)
        /\ NextText(df2, x) # <<>>) =>
          field = SomeText(NextText(df2, x))

\* C11: when a cell within the scanned rows contains a label pattern and the
\* text after the pattern, leading ':' and spaces stripped, is empty, the
\* value taken for the field is the trimmed value of the next cell in the
\* same row, if that cell is not empty.
C11_FallbackToNextCell ==
    pc2 = "searched" =>
        /\ FallbackHolds(article_name, product_name_patterns)
        /\ FallbackHolds(article_number, article_number_patterns)

\* "P:" in the first column of row 0, " x,y;NLz " next to it
C11_Witness ==
    /\ pc2 = "searched"
    /\ df2[1][1] = Str(<<"P", ":">>)
    /\ df2[1][2] = Str(<<" ", "x", ",", "y", ";", "NL", "z", " ">>)
    /\ article_name = SomeText(<<"x", ",", "y", ";", "NL", "z">>)


\* the maximal stretches of text without a separator, as pairs <<first, last>>
Stretches(text, separators) ==
    {x \in (1..Len(text)) \X (1..Len(text)) :
        /\ x[1] <= x[2]
        /\ \A i \in x[1]..x[2] : text[i] \notin separators
        /\ x[1] = 1 \/ text[x[1] - 1] \in separators
        /\ x[2] = Len(text) \/ text[x[2] + 1] \in separators
        /\ strip(SubSeq(text, x[1], x[2])) # <<>>}

\* list is the trimmed non-blank stretches of the field's text, in the order
\* they have in the text
IsFanOut(list, field, separators) ==
    LET text == field.text
        stretches == Stretches(text, separators)
        nth(n) == CHOOSE x \in stretches :
                     Cardinality({y \in stretches : y[1] < x[1]}) = n - 1
    IN  /\ Len(list) = Cardinality(stretches)
        /\ \A n \in 1..Len(list) :
              /\ list[n] = strip(SubSeq(text, nth(n)[1], nth(n)[2]))
              /\ list[n] # <<>>
              /\ strip(list[n]) = list[n]
              /\ \A i \in 1..Len(list[n]) : list[n][i] \notin separators

\* C12: the name string is split on runs of newline and semicolon only, the
\* number string on runs of comma, newline and semicolon; every element of
\* both lists is trimmed, not empty, free of its class's separators, and the
\* elements keep the order they have in the string.
C12_FanOut ==
    pc2 = "searched" =>
        /\ IsFanOut(article_names, article_name, {"NL", ";"})
        /\ IsFanOut(article_numbers, article_number, {",", "NL", ";"})

\* the string "x,y;NLz" as a name and as a number
C12_Witness ==
    /\ pc2 = "searched"
    /\ article_name = SomeText(<<"x", ",", "y", ";", "NL", "z">>)
    /\ article_number = article_name
    /\ article_names = <<<<"x", ",", "y">>, <<"z">>>>
    /\ article_numbers = <<<<"x">>, <<"y">>, <<"z">>>>

\* the source sheet has a cell whose trimmed text contains the header
\* pattern as it is written
HasAnchor(df) ==
    \E p \in 1..Len(df) : \E c \in 1..Len(df[p]) :
       ~isna(df[p][c]) /\ contains(strip(str(df[p][c])), header_pattern)

\* the source sheet has no header, or no data rows were extracted from it
Degraded == ~HasAnchor(df3) \/ data_rows = <<>>

\* C13: when the source sheet has no cell with the header pattern, or zero
\* data rows are extracted, transfer_data goes on to the save and the Step-3
\* document has no data rows; remove_duplicates on that document returns,
\* with no unique rows and a Step-4 document without data rows.
C13_DegradedStage3 ==
    /\ pc3 = "found" /\ Degraded => ENABLED NoDataFound
    /\ pc3 = "transferred" => ENABLED MarkAndSave
    /\ pc3 \in {"transferred", "saved"} /\ Degraded => ws3 = <<>>
    /\ pc4 \in {"extracted", "created"} /\ Degraded => unique_rows = <<>>
    /\ pc4 = "created" /\ Degraded => new_ws = <<>>

-----------------------------------------------------------------------------
(* File naming claims, on the orchestrator.                                *)

\* C14: every file that Stage N has written for a sheet is named
\* "{base_name} - {sheet_name} - Step{N}", whatever the sheet is called: the
\* names that Stages 2 to 4 derive from the previous file name carry the
\* base name and the sheet name that Stage 1 used.
C14_OutputNaming ==
    \A p \in DOMAIN fs : p = file_naming(fs[p].stage, base_name, fs[p].sheet)

\* C15: two different sheets of a run never share a file: a stage loads
\* only a file written for its own sheet, and the Step-4 files reported for
\* two succeeded sheets are different paths.
C15_SheetsIndependent ==
    /\ \A n \in 1..Len(log) :
          log[n].input # NoFile => log[n].input.sheet = log[n].sheet
    /\ \A i, j \in 1..Len(results.step4_files) :
          i # j => results.step4_files[i].file_path
                      # results.step4_files[j].file_path

-----------------------------------------------------------------------------
(* The materialized Step-4 document.                                       *)

\* the attributes of a style that C16 names are the same in two styles
SameStyle(s1, s2) ==
    /\ s1.bold = s2.bold /\ s1.color = s2.color /\ s1.fill = s2.fill
    /\ s1.horizontal = s2.horizontal /\ s1.vertical = s2.vertical
    /\ s1.wrap_text = s2.wrap_text /\ s1.text_rotation = s2.text_rotation
    /\ s1.border = s2.border

\* C16: the Step-4 document has the merged ranges of the Step-3 document,
\* every cell of the rows 1 to header_row has the value and the style
\* (bold, font colour, fill, alignment, wrap, rotation, border) it has in
\* the Step-3 document, and every column that has a width in the Step-3
\* document has that width in the Step-4 document.
C16_HeaderBlockKept ==
    pc4 = "created" =>
        /\ new_head.merged_cells = ws_head.merged_cells
        /\ \A row \in 1..layout_header_row :
           \A col \in 1..worksheet_max_column(ws_head) :
              /\ cell_at(new_head, row, col).value
                    = cell_at(ws_head, row, col).value
              /\ SameStyle(cell_at(new_head, row, col).style,
                           cell_at(ws_head, row, col).style)
        /\ \A col_letter \in DOMAIN ws_head.column_dimensions :
              /\ col_letter \in DOMAIN new_head.column_dimensions
              /\ new_head.column_dimensions[col_letter]
                    = ws_head.column_dimensions[col_letter]

\* a Step-3 document with an article name, rotated and merged over the rows
\* 1 to 9 of column R, an article number below it and the header widths
C16_Witness ==
    /\ pc4 = "created"
    /\ [col |-> start_column_index, min_row |-> 1, max_row |-> 9]
          \in new_head.merged_cells
    /\ cell_at(new_head, 1, start_column_index)
          = Cell(<<"n">>, ArticleNameStyle)
    /\ cell_at(new_head, 10, start_column_index).value = <<"1">>
    /\ cell_at(new_head, 10, 1) = Cell(<<"h">>, HeaderStyle)
    /\ new_head.column_dimensions["Q"] = header_width(17)

\* the index in the worksheet of the row that an entry of unique_rows holds
OriginalIndex(entry) == entry.row_num - data_start_row + 1

\* the cell of the Step-4 worksheet in data row j (row data_start_row + j - 1)
\* and column col; rows below the last written one hold no cell
NewCell(j, col) == IF j <= Len(new_ws) THEN new_ws[j][col] ELSE EmptyCell

-----------------------------------------------------------------------------
(* The header search and the extraction of Stage 3.                        *)

\* the rows (positions in df) that hold, inside the window, a cell whose
\* trimmed text contains the header pattern as it is written
LiteralHeaderRows(df) ==
    {p \in 1..Len(df) :
        /\ p <= search_rows
        /\ \E c \in 1..Len(df[p]) :
              /\ c <= search_columns
              /\ ~isna(df[p][c])
              /\ contains(strip(str(df[p][c])), header_pattern)}

\* C18: the header row that the search returns is the row of the first cell,
\* in row-major order within the first 50 rows and 30 columns, whose trimmed
\* text contains the header pattern in the same case; a row whose cells
\* match only when case is ignored is never returned.
C18_LocateHeader ==
    pc3 # "read" =>
        /\ LiteralHeaderRows(df3) # {}
              => \A p \in LiteralHeaderRows(df3) : header_row + 1 <= p
        /\ header_row # NoHeader => header_row + 1 \in LiteralHeaderRows(df3)

\* the rows from index idx on, up to the first empty row that follows a
\* collected row: empty rows before the first data row are passed over
RECURSIVE rows_up_to_gap(_, _, _)
rows_up_to_gap(df, idx, collected) ==
    IF idx >= Len(df) THEN <<>>
    ELSE LET row_data == fillna(df[idx + 1])
         IN  IF any_cell(row_data)
             THEN <<row_data>> \o rows_up_to_gap(df, idx + 1, TRUE)
             ELSE IF collected THEN <<>>
             ELSE rows_up_to_gap(df, idx + 1, FALSE)

\* C19: the extracted rows are, in sheet order, the non-empty rows from row
\* header_row + data_start_offset on, and the extraction stops at the first
\* empty row met after a data row was collected: no row after such a gap is
\* extracted.
C19_ExtractStopsAtGap ==
    pc3 # "read" /\ header_row # NoHeader =>
        data_rows = rows_up_to_gap(df3, header_row + data_start_offset, FALSE)

\* C20: the k-th extracted data row is written to the k-th row from
\* data_start_row on, and for every pair (source, target) of column_mapping
\* the target cell of that row holds the row's value in the source column if
\* and only if that value is not empty after trimming; it is left unset
\* otherwise.
C20_TransferPlacement ==
    pc3 = "transferred" /\ found_data =>
        /\ Len(ws3) = Len(data_rows)
        /\ \A r \in 1..Len(data_rows) :
           \A m \in 1..Len(column_mapping) :
              LET source_col == column_mapping[m][1]
                  target == ws3[r][ord_minus_A(column_mapping[m][2]) + 1]
              IN  IF TrimmedSource(data_rows[r], source_col) # <<>>
                  THEN target = data_rows[r][ord_minus_A(source_col) + 1]
                  ELSE target = Unset

\* the row that the mapping loop and the combinations write for the r-th
\* extracted row: what Stage 3 has written in the row before the marks
TransferredRow(r) ==
    _transfer_mapped_data(
        [n \in 1..Len(data_rows) |-> EmptyTargetRow], data_rows)[r]

\* Stage 3 wrote at least one mapped or combined value in the row
Populated(r) == TransferredRow(r) # EmptyTargetRow

\* C21: in the saved Step-3 document, for every row from data_start_row on
\* and every detected article column, the cell holds "X" if and only if
\* Stage 3 wrote a mapped or combined value in the row.
C21_MarksOnPopulatedRows ==
    pc3 = "saved" =>
        \A r \in 1..Len(ws3) : \A c \in article_columns(ws3_info) :
           ws3[r][c] = Str(<<"X">>) <=> Populated(r)

-----------------------------------------------------------------------------
(* The first match of the article search.                                  *)

\* the value that the label cell at x yields: what follows the label in the
\* cell, else the trimmed text of the next cell of the row (empty: none)
Yield(df, x, patterns) ==
    LET text == strip(str(df[x[1]][x[2]]))
        in_cell == _extract_value_after_pattern(
                       text, patterns[first_pattern(text, patterns)])
    IN  IF ~not_text(in_cell) THEN in_cell.text
        ELSE IF HasNext(df, x) THEN NextText(df, x)
        ELSE <<>>

\* the label cells of the scanned rows that yield a value
Yielding(df, patterns) ==
    {x \in ScanOrder(df) :
        IsLabel(df, x, patterns) /\ Yield(df, x, patterns) # <<>>}

\* the field holds the value of the first yielding cell, and no value when
\* no cell yields one
FirstMatchHolds(field, patterns) ==
    IF Yielding(df2, patterns) = {} THEN not_text(field)
    ELSE \E x \in Yielding(df2, patterns) :
            /\ \A y \in Yielding(df2, patterns) : ~Before(y, x)
            /\ field = SomeText(Yield(df2, x, patterns))

\* C22: for each field class, the value returned is the one of the first
\* cell, in row-major order within the rows 1..12, that contains a pattern
\* of the class and yields a non-empty value; a label cell that yields no
\* value does not keep a later label cell from being used, and no cell
\* beyond row 12 is used.
C22_FirstSuccessfulMatch ==
    pc2 = "searched" =>
        /\ FirstMatchHolds(article_name, product_name_patterns)
        /\ FirstMatchHolds(article_number, article_number_patterns)

-----------------------------------------------------------------------------
(* The Step-2 document that populate_template_with_article_info builds.    *)

\* the cells that populate has added to the template
PopulatedCells == DOMAIN ws2.cells \ DOMAIN create_template.cells

\* the merged range of the rows article_name_row to article_name_merge_end
\* of a column
NameRange(col) ==
    [col |-> col, min_row |-> layout_config.article_name_row,
     max_row |-> layout_config.article_name_merge_end]

\* the positions of the names and of the numbers
NameCells ==
    {<<layout_config.article_name_row, start_column_index + i - 1>> :
        i \in 1..Len(article_names)}

NumberCells ==
    {<<layout_config.article_number_start_row, start_column_index + i - 1>> :
        i \in 1..Len(article_numbers)}

\* the row of the numbers is not one of the rows merged for a name
RowsDisjoint ==
    layout_config.article_number_start_row
       \notin layout_config.article_name_row
                  ..layout_config.article_name_merge_end

InRange(pos, range) ==
    pos[2] = range.col /\ pos[1] \in range.min_row..range.max_row

\* two merged ranges have a cell in common
Overlap(r1, r2) ==
    /\ r1.col = r2.col
    /\ r1.min_row <= r2.max_row /\ r2.min_row <= r1.max_row

\* the cells that populate has written a number to: those it has given the
\* style of a number
WrittenNumberCells ==
    {pos \in PopulatedCells : ws2.cells[pos].style = ArticleNumberStyle}

\* no number cell lies inside a merged range, and the merged ranges are
\* pairwise non-overlapping
NoMergeConflict ==
    /\ \A pos \in WrittenNumberCells : \A range \in ws2.merged_cells :
          ~InRange(pos, range)
    /\ \A r1, r2 \in ws2.merged_cells : r1 # r2 => ~Overlap(r1, r2)

\* C24 as stated: for every layout with article_name_row <=
\* article_name_merge_end < data_start_row and every pair of lists, no
\* number cell that populate has written lies inside a range merged for a
\* name, and the merged ranges are pairwise non-overlapping.
C24_NoMergeConflict ==
    pc2 = "populated" => NoMergeConflict

\* C24 amended: the same for every such layout whose
\* article_number_start_row is not one of the rows article_name_row to
\* article_name_merge_end.
C24_NoMergeConflictDisjointRows ==
    pc2 = "populated" /\ RowsDisjoint => NoMergeConflict

\* the numbers in the row above the names: two names, three numbers
C24_Witness ==
    /\ pc2 = "populated"
    /\ layout_config.article_number_start_row = 1
    /\ layout_config.article_name_row = 2
    /\ Len(article_names) = 2
    /\ Len(article_numbers) = 3
    /\ cell_at(ws2, 1, start_column_index).value = <<"x">>
    /\ NameRange(start_column_index) \in ws2.merged_cells

-----------------------------------------------------------------------------
(* The transformations of Stage 4, row by row.                             *)

\* C25: for every data row whose column A is not empty, column A holds
\* after the transformations the replacement of the first key of
\* column_a_replacements, in configuration order, that equals its trimmed
\* value ignoring case, and its former value when no key does: a
\* replacement is applied once and not replaced again.
C25_ColumnAReplacement ==
    pc4 \in {"transformed", "extracted", "created", "again"} =>
        \A i \in 1..Len(step3_file) :
           HasText(step3_file[i][1].value) =>
              worksheet[i][1].value = ReplacedA(step3_file[i][1].value)

\* a row with "a" in column A, which the keys "a" and "A" equal ignoring
\* case, holds the replacement of "a"; a row with "b " holds it as it was
C25_Witness ==
    /\ pc4 = "transformed"
    /\ Len(step3_file) = 2
    /\ step3_file[1][1].value = <<"a">>
    /\ worksheet[1][1].value = <<"b">>
    /\ step3_file[2][1].value = <<"b", " ">>
    /\ worksheet[2][1].value = <<"b", " ">>

\* the trimmed column-H value of the row equals "SD" ignoring case
IsSD(row) == upper(strip(row[8].value)) = <<"S", "D">>

\* C26: after the transformations no data row has "SD" in column H
\* (trimmed, ignoring case) together with a non-empty column K, and in the
\* rows whose column H is not "SD" column K is as it was.
C26_ConditionalClear ==
    pc4 \in {"transformed", "extracted", "created", "again"} =>
        \A i \in 1..Len(worksheet) :
           /\ IsSD(worksheet[i]) => ~HasText(worksheet[i][11].value)
           /\ ~IsSD(step3_file[i]) => worksheet[i][11] = step3_file[i][11]

\* "sd" and "k" in the first row, which loses the "k"; "k" without "sd" in
\* the second row, which keeps it
C26_Witness ==
    /\ pc4 = "transformed"
    /\ Len(step3_file) = 2
    /\ step3_file[1][8].value = <<"s", "d">>
    /\ step3_file[1][11].value = <<"k">>
    /\ worksheet[1][11].value = <<>>
    /\ step3_file[2][8].value = <<>>
    /\ worksheet[2][11].value = <<"k">>

-----------------------------------------------------------------------------
(* C27: on the web-application path (Step3DataTransfer.apply_column_mapping *)
(* and populate_step2_template_with_data), the L + M rule is all or         *)
(* nothing: once the Step-3 document is saved, column I of a row holds L    *)
(* and M joined by "-" when both are non-empty, and holds no value when     *)
(* either of them is empty.                                                 *)

\* the text of column `letter` of an extracted row of the legacy path
LegacyText(r, letter) == legacy_data_rows[r][ord_minus_A(letter) + 1]

C27_LegacyCombinationAllOrNothing ==
    pc_legacy = "saved" =>
        \A r \in 1..Len(legacy_data_rows) :
            step3_doc[r][ord_minus_A("I") + 1] =
                IF LegacyText(r, "L") # <<>> /\ LegacyText(r, "M") # <<>>
                THEN Str(LegacyText(r, "L") \o <<"-">> \o LegacyText(r, "M"))
                ELSE Unset

-----------------------------------------------------------------------------
(* C28: content carried to the deliverable.  Once Stage 4 has written the   *)
(* Step-4 document of a sheet that Stage 3 saved, every article name cell   *)
(* and every article number cell that Stage 2 wrote is in the Step-4        *)
(* document with its value, and every "X" that Stage 3 wrote on a row that  *)
(* dedupe retained is in the Step-4 document, in the same column of the     *)
(* row written for it.                                                      *)

\* the cells of the header block that Stage 2 wrote: from column R on
ArticleCells == {pos \in DOMAIN ws_head.cells : pos[2] >= start_column_index}

\* the cells (data row, column) in which Stage 3 wrote a mark
Marks ==
    {cell \in (1..Len(ws3)) \X article_columns(ws3_info) :
        ws3[cell[1]][cell[2]] = Str(<<"X">>)}

\* data row r of the Step-3 document is one that dedupe retained
Survives(r) ==
    \E j \in 1..Len(unique_rows) : OriginalIndex(unique_rows[j]) = r

\* the value of the Step-4 document in the row written for data row r of
\* the Step-3 document, in column col
CarriedValue(r, col) ==
    LET j == CHOOSE j \in 1..Len(unique_rows) :
                 OriginalIndex(unique_rows[j]) = r
    IN  IF col <= NCols THEN NewCell(j, col).value ELSE <<>>

C28_ContentCarried ==
    pc3 = "saved" /\ pc4 = "created" =>
        /\ \A pos \in ArticleCells :
              /\ pos \in DOMAIN new_head.cells
              /\ new_head.cells[pos].value = ws_head.cells[pos].value
        /\ \A cell \in Marks :
              Survives(cell[1]) => CarriedValue(cell[1], cell[2]) = <<"X">>

-----------------------------------------------------------------------------
(* C29: no blank rows in the deliverable.  Once Stage 4 has written the     *)
(* Step-4 document of a sheet that Stage 3 saved, every row from            *)
(* data_start_row to the last written data row holds at least one cell      *)
(* that is not empty.                                                       *)

C29_NoBlankRows ==
    pc3 = "saved" /\ pc4 = "created" =>
        \A j \in 1..Len(new_ws) :
            \E col \in 1..NCols : new_ws[j][col].value # <<>>

-----------------------------------------------------------------------------
(* C30: configuration source consistency.  A CorePipeline constructed with  *)
(* config_dir D holds, in each of its four processors, the configurations   *)
(* loaded from D, and while a run is in flight the template configuration   *)
(* that its stages get from ConfigManager is the one loaded from D as well, *)
(* so that all stages of the run observe one configuration.                 *)

\* the configurations the processors of the pipeline took at construction
HeldConfigs ==
    {pipeline.procs.template_creator.template_config,
     pipeline.procs.template_creator.processing_config,
     pipeline.procs.step2_processor.processing_config,
     pipeline.procs.step3_processor.processing_config,
     pipeline.procs.step4_processor.processing_config,
     pipeline.procs.step4_processor.template_config}

\* what ConfigManager.get_template_config() returns to a stage that calls
\* it now, when the file loads
ObservedTemplateConfig ==
    get_template_config(_template_config, None, TRUE).cache

C30_ConfigSourceConsistency ==
    pipeline.constructed =>
        /\ HeldConfigs = {config_path(pipeline.config_dir)}
        /\ pc \in {"stage2", "stage3", "stage4"} =>
              ObservedTemplateConfig = config_path(pipeline.config_dir)

====
